---------------------------- MODULE Spec2Model ----------------------------
(***************************************************************************)
(* The client-side translation engine of static/js/i18n.js: the language   *)
(* preference store, the dotted-path key resolver, the namespace fallback  *)
(* engine, the translation loader and the DOM applicator.                  *)
(*                                                                         *)
(* JavaScript values are tagged records [t |-> <type>, v |-> <value>].     *)
(* Strings that take part in a lookup (paths, segments, mapping keys,      *)
(* stored string values) are sequences of characters, so that split('.'),  *)
(* isNaN and parseInt are computed and not assumed.                        *)
(***************************************************************************)
EXTENDS Integers, Sequences, FiniteSets, TLC

VARIABLES
    currentLang,    \* I18N.currentLang: JsNull, "zh" or "en"
    currentPage,    \* I18N.currentPage: JsNull or a page identifier
    translations,   \* I18N.translations: namespace name -> payload
    stored,         \* localStorage item 'lang' (JsNull when absent)
    navLang,        \* navigator.language, a sequence of characters
    docLang,        \* document.documentElement.lang
    dispatched,     \* the 'langchange' payloads dispatched by the last step
    loads,          \* the aggregate loads (loadTranslations calls) in flight
    dom,            \* the document: a sequence of nodes
    pathname,       \* window.location.pathname, a sequence of words
    call,           \* the operation called, its inputs, and whether it has run
    prev,           \* the operation called before it
    ret             \* what that operation returned

vars == <<currentLang, currentPage, translations, stored, navLang, docLang,
          dispatched, loads, dom, pathname, call, prev, ret>>

(***************************************************************************)
(* JavaScript values.                                                      *)
(***************************************************************************)
JsNull == "<null>"

Undefined == [t |-> "undefined"]
Null == [t |-> "null"]
Str(s) == [t |-> "string", v |-> s]
Bool(b) == [t |-> "boolean", v |-> b]
Obj(f) == [t |-> "object", v |-> f]
Arr(s) == [t |-> "array", v |-> s]

EmptyObject == Obj(<<>>)

\* A test of the value being falsy: !value
IsFalsy(x) ==
    \/ x.t \in {"null", "undefined"}
    \/ x.t = "string" /\ x.v = <<>>
    \/ x.t = "boolean" /\ ~x.v

\* value !== null && value !== undefined
IsNullish(x) == x.t \in {"null", "undefined"}

\* The characters paths are written with. "0" and "1" are the decimal digits
\* among them, "a" and "b" the letters, "." the separator of getValue.
Digits == {"0", "1"}
Letters == {"a", "b"}
Dot == "."
Alphabet == Letters \cup Digits \cup {Dot}

DigitValue(c) == IF c = "0" THEN 0 ELSE 1

\* path.split('.')
RECURSIVE split(_)
split(s) ==
    IF s = <<>> THEN << <<>> >>
    ELSE IF Head(s) = Dot THEN << <<>> >> \o split(Tail(s))
    ELSE LET r == split(Tail(s))
         IN  << <<Head(s)>> \o Head(r) >> \o Tail(r)

AllDigits(s) == \A i \in 1..Len(s) : s[i] \in Digits

\* isNaN(key) of a string key is "Number(key) is NaN". Over Alphabet without
\* the dot, Number(key) is a number exactly for the empty string (0), for a
\* decimal literal (all digits) and for a binary literal "0b" followed by at
\* least one binary digit.
isNaN(key) ==
    ~ \/ key = <<>>
      \/ AllDigits(key)
      \/ /\ Len(key) >= 3
         /\ key[1] = "0"
         /\ key[2] = "b"
         /\ AllDigits(SubSeq(key, 3, Len(key)))

\* The longest prefix of decimal digits: what parseInt(key) reads (radix 10;
\* no sign, blank or "0x" can be written with Alphabet).
RECURSIVE LeadingDigits(_)
LeadingDigits(s) ==
    IF s = <<>> \/ Head(s) \notin Digits THEN <<>>
    ELSE <<Head(s)>> \o LeadingDigits(Tail(s))

RECURSIVE DecimalValue(_)
DecimalValue(d) ==
    IF d = <<>> THEN 0
    ELSE 10 * DecimalValue(SubSeq(d, 1, Len(d) - 1)) + DigitValue(d[Len(d)])

\* result[parseInt(key)] of an array: parseInt is NaN when key has no leading
\* digit, and an index that is NaN or past the end reads undefined.
ArrayGet(arr, key) ==
    LET d == LeadingDigits(key)
    IN  IF d = <<>> THEN Undefined
        ELSE IF DecimalValue(d) < Len(arr) THEN arr[DecimalValue(d) + 1]
        ELSE Undefined

\* A canonical array index: "0", or digits without a leading zero.
IsIndexString(key) ==
    /\ key # <<>>
    /\ AllDigits(key)
    /\ (Len(key) > 1 => key[1] # "0")

\* key in result, for an object or an array made by JSON.parse. An array has
\* its indices; its only other properties ("length" and the inherited ones)
\* cannot be written with Alphabet, nor can an object's inherited ones.
HasProperty(result, key) ==
    IF result.t = "array"
    THEN IsIndexString(key) /\ DecimalValue(key) < Len(result.v)
    ELSE key \in DOMAIN result.v

GetProperty(result, key) ==
    IF result.t = "array" THEN result.v[DecimalValue(key) + 1]
    ELSE result.v[key]

\* The loop of getValue from index i on.
RECURSIVE getValueFrom(_, _, _)
getValueFrom(result, keys, i) ==
    IF i > Len(keys) THEN result
    ELSE IF result.t \in {"object", "array"}
    THEN LET key == keys[i]
         IN  IF result.t = "array" /\ ~isNaN(key)
             THEN getValueFrom(ArrayGet(result.v, key), keys, i + 1)
             ELSE IF HasProperty(result, key)
             THEN getValueFrom(GetProperty(result, key), keys, i + 1)
             ELSE Null
    ELSE Null

\* I18N.getValue(obj, path)
getValue(obj, path) ==
    IF path = <<>> THEN obj
    ELSE getValueFrom(obj, split(path), 1)


(***************************************************************************)
(* The namespace fallback engine, I18N.t.                                  *)
(***************************************************************************)
\* this.translations[ns]
At(tr, ns) == IF ns \in DOMAIN tr THEN tr[ns] ELSE Undefined

\* A value used as a condition: if (this.translations[ns]), results[i] || {}
Truthy(x) ==
    CASE x.t \in {"object", "array"} -> TRUE
      [] x.t = "string" -> x.v # <<>>
      [] x.t = "boolean" -> x.v
      [] OTHER -> FALSE

\* A namespace or page name used as a condition: null and '' are falsy.
TruthyName(n) == n # JsNull /\ n # ""

\* const pageNamespaces of the branch with an explicit namespace
ExplicitPagesSwapped ==
    <<"services", "solutions", "index", "introduction", "contact">>

ExplicitPages == <<"solutions", "services", "index", "introduction", "contact">>

\* const pageNamespaces of the branch without a namespace
DefaultPagesSwapped ==
    <<"services", "solutions", "index", "contact", "introduction">>

DefaultPages == <<"services", "solutions", "index", "introduction", "contact">>

\* ['header', 'footer'], in both branches
ChromeSwapped == <<"footer", "header">>

Chrome == <<"header", "footer">>

\* for (const ns of ['header', 'footer']) of the explicit branch, from index
\* i on: undefined stands for "the loop ended without returning".
RECURSIVE tExplicitChrome(_, _, _)
tExplicitChrome(tr, key, i) ==
    IF i > Len(Chrome) THEN Undefined
    ELSE LET result == getValue(At(tr, Chrome[i]), key)
         IN  IF ~IsNullish(result) THEN result
             ELSE tExplicitChrome(tr, key, i + 1)

\* for (const ns of pageNamespaces) of the explicit branch, from index i on
RECURSIVE tExplicitPages(_, _, _, _)
tExplicitPages(tr, key, namespace, i) ==
    IF i > Len(ExplicitPages) THEN Undefined
    ELSE LET ns == ExplicitPages[i]
         IN  IF ns # namespace /\ Truthy(At(tr, ns))
                /\ ~IsNullish(getValue(At(tr, ns), key))
             THEN getValue(At(tr, ns), key)
             ELSE tExplicitPages(tr, key, namespace, i + 1)

\* The fallback to the current page namespace of the explicit branch.
tExplicitCurrentPage(tr, cp, key, namespace) ==
    IF TruthyName(cp) /\ cp # namespace
    THEN getValue(At(tr, cp), key)
    ELSE Undefined

\* t(key, namespace) with a namespace
tExplicit(tr, cp, key, namespace) ==
    LET own == getValue(At(tr, namespace), key)
        page == tExplicitCurrentPage(tr, cp, key, namespace)
        pages == tExplicitPages(tr, key, namespace, 1)
        chrome == tExplicitChrome(tr, key, 1)
    IN  IF ~IsNullish(own) THEN own
        ELSE IF ~IsNullish(page) THEN page
        ELSE IF ~IsNullish(pages) THEN pages
        ELSE IF ~IsNullish(chrome) THEN chrome
        ELSE Str(key)

\* The loops of the branch without a namespace, over list from index i on.
RECURSIVE tDefaultLoop(_, _, _, _)
tDefaultLoop(tr, key, list, i) ==
    IF i > Len(list) THEN Undefined
    ELSE LET ns == list[i]
         IN  IF Truthy(At(tr, ns)) /\ ~IsNullish(getValue(At(tr, ns), key))
             THEN getValue(At(tr, ns), key)
             ELSE tDefaultLoop(tr, key, list, i + 1)

\* t(key) without a namespace
tDefault(tr, cp, key) ==
    LET page == IF TruthyName(cp) /\ Truthy(At(tr, cp))
                THEN getValue(At(tr, cp), key)
                ELSE Undefined
        pages == tDefaultLoop(tr, key, DefaultPages, 1)
        chrome == tDefaultLoop(tr, key, Chrome, 1)
    IN  IF ~IsNullish(page) THEN page
        ELSE IF ~IsNullish(pages) THEN pages
        ELSE IF ~IsNullish(chrome) THEN chrome
        ELSE Str(key)

\* I18N.t(key, namespace), reading this.translations and this.currentPage
t(tr, cp, key, namespace) ==
    IF TruthyName(namespace) THEN tExplicit(tr, cp, key, namespace)
    ELSE tDefault(tr, cp, key)

(***************************************************************************)
(* The language preference store.                                          *)
(***************************************************************************)
\* lang !== 'zh' && lang !== 'en', negated; also the test on the stored item
RecognizedAnyCase(lang) == lang \in {"zh", "en", "ZH", "EN"}

Recognized(lang) == lang \in {"zh", "en"}

\* String.prototype.toLowerCase, on the characters locales are written with
LowerCase(c) ==
    CASE c = "Z" -> "z"
      [] c = "H" -> "h"
      [] c = "E" -> "e"
      [] c = "N" -> "n"
      [] c = "C" -> "c"
      [] c = "U" -> "u"
      [] c = "S" -> "s"
      [] OTHER -> c

toLowerCase(str) == [i \in 1..Len(str) |-> LowerCase(str[i])]

\* browserLang.startsWith('zh')
startsWithZh(str) == Len(str) >= 2 /\ str[1] = "z" /\ str[2] = "h"

\* navigator.language when the runtime reports none
NoLocale == <<JsNull>>

\* (navigator.language || 'zh').toLowerCase()
browserLang(nav) ==
    toLowerCase(IF nav = NoLocale \/ nav = <<>> THEN <<"z", "h">> ELSE nav)

\* getCurrentLang adopting any stored item.
getCurrentLangUnchecked(cur, sto, nav) ==
    IF cur # JsNull THEN cur
    ELSE IF sto # JsNull THEN sto
    ELSE IF startsWithZh(browserLang(nav)) THEN "zh" ELSE "en"

\* getCurrentLang taking no account of the cache.
getCurrentLangUncached(cur, sto, nav) ==
    IF sto # JsNull /\ Recognized(sto) THEN sto
    ELSE IF startsWithZh(browserLang(nav)) THEN "zh" ELSE "en"

\* What getCurrentLang returns, which is also what it leaves in the cache.
getCurrentLang(cur, sto, nav) ==
    IF cur # JsNull THEN cur
    ELSE IF sto # JsNull /\ Recognized(sto) THEN sto
    ELSE IF startsWithZh(browserLang(nav)) THEN "zh" ELSE "en"

\* document.documentElement.lang = lang === 'zh' ? 'zh-CN' : 'en'
DocLangOf(lang) == IF lang = "zh" THEN "zh-CN" ELSE "en"

\* I18N.getCurrentLang()
GetCurrentLang ==
    /\ currentLang' = getCurrentLang(currentLang, stored, navLang)
    /\ ret' = currentLang'
    /\ dispatched' = <<>>
    /\ prev' = call
    /\ call' = [op |-> "getCurrentLang", done |-> TRUE]
    /\ UNCHANGED <<pathname, currentPage, translations, stored, navLang, docLang,
                   loads, dom>>

\* setLang persisting the language without updating the cache.
SetLangNoCache(lang) ==
    /\ IF Recognized(lang)
       THEN /\ stored' = lang
            /\ docLang' = DocLangOf(lang)
            /\ dispatched' = <<lang>>
            /\ UNCHANGED currentLang
       ELSE /\ dispatched' = <<>>
            /\ UNCHANGED <<currentLang, stored, docLang>>
    /\ ret' = Undefined
    /\ prev' = call
    /\ call' = [op |-> "setLang", lang |-> lang, done |-> TRUE]
    /\ UNCHANGED <<pathname, currentPage, translations, navLang, loads, dom>>

\* setLang dispatching no event.
SetLangNoEvent(lang) ==
    /\ IF Recognized(lang)
       THEN /\ currentLang' = lang
            /\ stored' = lang
            /\ docLang' = DocLangOf(lang)
       ELSE UNCHANGED <<currentLang, stored, docLang>>
    /\ dispatched' = <<>>
    /\ ret' = Undefined
    /\ prev' = call
    /\ call' = [op |-> "setLang", lang |-> lang, done |-> TRUE]
    /\ UNCHANGED <<pathname, currentPage, translations, navLang, loads, dom>>

\* I18N.setLang(lang)
SetLang(lang) ==
    /\ IF Recognized(lang)
       THEN /\ currentLang' = lang
            /\ stored' = lang
            /\ docLang' = DocLangOf(lang)
            /\ dispatched' = <<lang>>
       ELSE /\ dispatched' = <<>>
            /\ UNCHANGED <<currentLang, stored, docLang>>
    /\ ret' = Undefined
    /\ prev' = call
    /\ call' = [op |-> "setLang", lang |-> lang, done |-> TRUE]
    /\ UNCHANGED <<pathname, currentPage, translations, navLang, loads, dom>>

(***************************************************************************)
(* The translation loader.                                                 *)
(***************************************************************************)
\* Markup with a marked element, as a translation value can hold it
MarkedText == <<"<i data-i18n='a'>", "raw", "</i>">>

\* The reserved 'meta' object of a page file: contact has a title and a
\* description, index a title, the other files have no 'meta'.
MetaOf(name, lang) ==
    IF name = "contact"
    THEN <<"meta">> :> Obj((<<"title">> :> Str(<<"title", lang>>))
                           @@ (<<"description">> :> Str(<<"description", lang>>)))
    ELSE IF name = "index"
    THEN <<"meta">> :> Obj(<<"title">> :> Str(<<"title", lang>>))
    ELSE <<>>

\* The JSON of content/<name>.<lang>.json: every file has the key 'a', with
\* a value that tells the file; contact has markup under 'b'.
FilePayload(name, lang) ==
    Obj((<<"a">> :> Str(<<name, lang>>))
        @@ (IF name = "contact" THEN <<"b">> :> Str(MarkedText) ELSE <<>>)
        @@ MetaOf(name, lang))

\* How a request ends: a success response with the file's JSON, which is an
\* object ("ok"), a non-success response ("http"), a network failure
\* ("network"), an unparsable body ("parse").
Failures == {"http", "network", "parse"}

Outcomes == {"ok"} \cup Failures

\* The promise loadTranslation returns, before its request has ended.
PendingFetch == [st |-> "pending", value |-> Undefined, outcome |-> "none"]

\* The promise of loadTranslation without its .catch
loadTranslationNoCatch(name, lang, outcome) ==
    IF outcome = "ok"
    THEN [st |-> "fulfilled", value |-> FilePayload(name, lang),
          outcome |-> outcome]
    ELSE [st |-> "rejected", value |-> Undefined, outcome |-> outcome]

\* The promise loadTranslation returns, once its request has ended:
\* fetch(url).then(res => { if (!res.ok) throw ...; return res.json() })
\*           .catch(err => { return {} })
loadTranslation(name, lang, outcome) ==
    IF outcome = "ok"
    THEN [st |-> "fulfilled", value |-> FilePayload(name, lang),
          outcome |-> outcome]
    ELSE [st |-> "fulfilled", value |-> EmptyObject, outcome |-> outcome]

\* A Promise.all that resolves with the first fulfilled promise.
PromiseAny(promises) ==
    IF \E i \in 1..Len(promises) : promises[i].st = "rejected" THEN "rejected"
    ELSE IF \E i \in 1..Len(promises) : promises[i].st = "fulfilled"
    THEN "fulfilled"
    ELSE "pending"

\* The state of Promise.all(promises)
PromiseAll(promises) ==
    IF \E i \in 1..Len(promises) : promises[i].st = "rejected" THEN "rejected"
    ELSE IF \A i \in 1..Len(promises) : promises[i].st = "fulfilled"
    THEN "fulfilled"
    ELSE "pending"

\* results[i] || {}
OrEmpty(x) == IF Truthy(x) THEN x ELSE EmptyObject

\* The registry written with the results in reverse.
RECURSIVE StoreResultsReversed(_, _, _, _)
StoreResultsReversed(tr, names, results, i) ==
    IF i > Len(names) THEN tr
    ELSE StoreResultsReversed(
             [n \in DOMAIN tr \cup {names[i]} |->
                 IF n = names[i]
                 THEN OrEmpty(results[Len(names) + 1 - i].value)
                 ELSE tr[n]],
             names, results, i + 1)

\* names.forEach((name, i) => { this.translations[name] = results[i] || {} })
\* from index i on
RECURSIVE StoreResults(_, _, _, _)
StoreResults(tr, names, results, i) ==
    IF i > Len(names) THEN tr
    ELSE StoreResults(
             [n \in DOMAIN tr \cup {names[i]} |->
                 IF n = names[i] THEN OrEmpty(results[i].value) ELSE tr[n]],
             names, results, i + 1)

\* I18N.loadTranslations(names): one request per name, each for the language
\* getCurrentLang returns, which the first of them caches.
LoadTranslations(names, bound) ==
    /\ Len(loads) < bound
    /\ currentLang' = getCurrentLang(currentLang, stored, navLang)
    /\ loads' = Append(loads, [names |-> names,
                               lang |-> currentLang',
                               fetches |-> [i \in 1..Len(names) |-> PendingFetch],
                               st |-> "pending"])
    /\ dispatched' = <<>>
    /\ call' = [op |-> "loadTranslations", done |-> TRUE]
    /\ ret' = Undefined
    /\ UNCHANGED <<pathname, currentPage, translations, stored, navLang, docLang, dom,
                   prev>>

\* The request for names[i] of load l ends with outcome. When that settles
\* Promise.all, its continuation runs in the same turn: the registry is
\* written from the results. call.resolved holds the load the step resolved,
\* call.index the request that ended.
FetchSettles(l, i, outcome) ==
    /\ l \in DOMAIN loads
    /\ i \in DOMAIN loads[l].fetches
    /\ loads[l].fetches[i].st = "pending"
    /\ LET load == loads[l]
           fetches == [load.fetches EXCEPT
                          ![i] = loadTranslation(load.names[i], load.lang, outcome)]
           all == IF load.st = "pending" THEN PromiseAll(fetches) ELSE load.st
       IN  /\ loads' = [loads EXCEPT ![l] = [load EXCEPT !.fetches = fetches,
                                                          !.st = all]]
           /\ translations' =
                 IF load.st = "pending" /\ all = "fulfilled"
                 THEN StoreResults(translations, load.names, fetches, 1)
                 ELSE translations
           /\ call' = [op |-> "settle",
                       resolved |-> IF load.st = "pending" /\ all = "fulfilled"
                                    THEN {l} ELSE {},
                       index |-> i,
                       done |-> TRUE]
    /\ dispatched' = <<>>
    /\ ret' = Undefined
    /\ UNCHANGED <<pathname, currentLang, currentPage, stored, navLang, docLang, dom,
                   prev>>

(***************************************************************************)
(* The document. A node is an element with its attributes and children or  *)
(* a text node; an element is addressed by the path of child positions     *)
(* that leads to it from the document, which is the empty path. The value  *)
(* of an attribute is a sequence of characters; a name (a namespace, a     *)
(* language, a class) is one character of it. Markup in a string is        *)
(* written with one character per tag.                                     *)
(***************************************************************************)
Text(s) == [t |-> "text", v |-> s]
Element(attrs, kids) == [t |-> "el", attrs |-> attrs, kids |-> kids]

RECURSIVE NodeAt(_, _)
NodeAt(nodes, p) ==
    IF Len(p) = 1 THEN nodes[p[1]]
    ELSE NodeAt(nodes[p[1]].kids, Tail(p))

\* The children of the document (p empty) or of the element at p.
KidsAt(nodes, p) == IF p = <<>> THEN nodes ELSE NodeAt(nodes, p).kids

\* The document with the element at p replaced by node.
RECURSIVE ReplaceAt(_, _, _)
ReplaceAt(nodes, p, node) ==
    [nodes EXCEPT ![p[1]] =
        IF Len(p) = 1 THEN node
        ELSE [nodes[p[1]] EXCEPT
                 !.kids = ReplaceAt(nodes[p[1]].kids, Tail(p), node)]]

IsProperPrefix(q, p) == Len(q) < Len(p) /\ SubSeq(p, 1, Len(q)) = q

\* The elements among nodes and below them, in document order, from child i
\* on; prefix is the path of their parent.
RECURSIVE Descendants(_, _, _)
Descendants(nodes, prefix, i) ==
    IF i > Len(nodes) THEN <<>>
    ELSE (IF nodes[i].t = "el"
          THEN <<Append(prefix, i)>>
                   \o Descendants(nodes[i].kids, Append(prefix, i), 1)
          ELSE <<>>)
         \o Descendants(nodes, prefix, i + 1)

\* What getAttribute returns for an attribute the element has not: null.
NoAttribute == <<JsNull>>

\* el.getAttribute(name)
getAttribute(el, name) ==
    IF name \in DOMAIN el.attrs THEN el.attrs[name] ELSE NoAttribute

\* The value of an attribute as a name: null, '' or the name.
NameOf(value) ==
    IF value = NoAttribute THEN JsNull
    ELSE IF value = <<>> THEN ""
    ELSE value[1]

\* root.querySelectorAll('[' + attr + ']'): the elements below root, root
\* excluded, that carry the attribute, in document order.
querySelectorAll(d, root, attr) ==
    SelectSeq(Descendants(KidsAt(d, root), root, 1),
              LAMBDA p : attr \in DOMAIN NodeAt(d, p).attrs)

\* el.classList, the class attribute being a sequence of class names
classList(el) == IF "class" \in DOMAIN el.attrs THEN el.attrs["class"] ELSE <<>>

HasClass(el, name) == \E i \in 1..Len(classList(el)) : classList(el)[i] = name

\* The element at p matches '.lang-switcher [data-lang]': the selector is
\* matched in the whole document.
MatchesSwitcherButton(d, p) ==
    /\ "data-lang" \in DOMAIN NodeAt(d, p).attrs
    /\ \E k \in 1..(Len(p) - 1) :
          HasClass(NodeAt(d, SubSeq(p, 1, k)), "lang-switcher")

\* root.querySelectorAll('.lang-switcher [data-lang]'): the switcher may be
\* root or above it.
querySwitcherButtons(d, root) ==
    SelectSeq(Descendants(KidsAt(d, root), root, 1),
              LAMBDA p : MatchesSwitcherButton(d, p))

\* String(value), of a value that t returns
RECURSIVE String(_)
String(x) ==
    CASE x.t = "string" -> x.v
      [] x.t = "boolean" -> IF x.v THEN <<"true">> ELSE <<"false">>
      [] x.t = "object" -> <<"[object Object]">>
      [] x.t = "array" ->
            IF x.v = <<>> THEN <<>>
            ELSE IF Len(x.v) = 1 THEN String(x.v[1])
            ELSE String(x.v[1]) \o <<",">> \o String(Arr(Tail(x.v)))
      [] OTHER -> <<>>

\* The tags that markup is written with, and the attributes of each.
CloseTag == "</i>"

TagAttrs(c) ==
    CASE c = "<i data-i18n='a'>" -> ("data-i18n" :> <<"a">>)
      [] c = "<i data-i18n-html='b' data-i18n-title='a'>" ->
            ("data-i18n-html" :> <<"b">>) @@ ("data-i18n-title" :> <<"a">>)
      [] c = "<i class='lang-switcher'>" -> ("class" :> <<"lang-switcher">>)
      [] c = "<i data-lang='zh'>" -> ("data-lang" :> <<"zh">>)
      [] OTHER -> <<>>

IsOpenTag(c) ==
    c \in {"<i data-i18n='a'>", "<i data-i18n-html='b' data-i18n-title='a'>",
           "<i class='lang-switcher'>", "<i data-lang='zh'>"}

\* Two runs of nodes as one: character data on both sides of the seam is
\* one text node.
JoinNodes(a, b) ==
    IF a # <<>> /\ b # <<>> /\ a[Len(a)].t = "text" /\ Head(b).t = "text"
    THEN SubSeq(a, 1, Len(a) - 1)
             \o <<Text(a[Len(a)].v \o Head(b).v)>> \o Tail(b)
    ELSE a \o b

\* The HTML parser from character i of s on, up to the end tag of the
\* element it is in or the end of s: the nodes, and where it stopped.
RECURSIVE parseNodes(_, _)
parseNodes(s, i) ==
    IF i > Len(s) THEN [nodes |-> <<>>, next |-> i]
    ELSE IF s[i] = CloseTag THEN [nodes |-> <<>>, next |-> i + 1]
    ELSE IF IsOpenTag(s[i])
    THEN LET inner == parseNodes(s, i + 1)
             rest == parseNodes(s, inner.next)
         IN  [nodes |-> <<Element(TagAttrs(s[i]), inner.nodes)>> \o rest.nodes,
              next |-> rest.next]
    ELSE LET rest == parseNodes(s, i + 1)
         IN  [nodes |-> JoinNodes(<<Text(<<s[i]>>)>>, rest.nodes),
              next |-> rest.next]

\* The children el.innerHTML = s gives an element, from character i on: an
\* end tag that ends no element is dropped.
RECURSIVE innerHTML(_, _)
innerHTML(s, i) ==
    LET r == parseNodes(s, i)
    IN  IF r.next > Len(s) THEN r.nodes
        ELSE JoinNodes(r.nodes, innerHTML(s, r.next))

\* The children el.textContent = s gives an element: the string as it is
\* in one text node, or nothing for the empty string.
textContent(s) == IF s = <<>> THEN <<>> ELSE <<Text(s)>>

\* el.setAttribute(name, value)
setAttribute(el, name, value) ==
    [el EXCEPT !.attrs = [n \in DOMAIN el.attrs \cup {name} |->
                             IF n = name THEN value ELSE el.attrs[n]]]

RemoveClass(classes, name) == SelectSeq(classes, LAMBDA c : c # name)

\* A toggle that takes no account of force.
toggleFlip(el, name, force) ==
    IF HasClass(el, name)
    THEN setAttribute(el, "class", RemoveClass(classList(el), name))
    ELSE setAttribute(el, "class", Append(classList(el), name))

\* el.classList.toggle(name, force): the class attribute is written only
\* when the list changes.
toggle(el, name, force) ==
    IF force
    THEN IF HasClass(el, name) THEN el
         ELSE setAttribute(el, "class", Append(classList(el), name))
    ELSE IF HasClass(el, name)
         THEN setAttribute(el, "class", RemoveClass(classList(el), name))
         ELSE el

(***************************************************************************)
(* The DOM applicator, I18N.applyTranslations.                             *)
(***************************************************************************)
\* value !== key, of the value t returns for key
Differs(value, key) == value.t # "string" \/ value.v # key

\* this.t(el.getAttribute(attr), el.getAttribute('data-i18n-ns'))
tOf(el, attr, tr, cp) ==
    t(tr, cp, el.attrs[attr], NameOf(getAttribute(el, "data-i18n-ns")))

\* The callback of the text markers writing whatever t returns.
translateTextAlways(el, tr, cp) ==
    [el EXCEPT !.kids = textContent(String(tOf(el, "data-i18n", tr, cp)))]

\* The callback of the text markers: el.textContent = value, if value !== key
translateText(el, tr, cp) ==
    IF Differs(tOf(el, "data-i18n", tr, cp), el.attrs["data-i18n"])
    THEN [el EXCEPT !.kids = textContent(String(tOf(el, "data-i18n", tr, cp)))]
    ELSE el

\* The callback of the markup markers: el.innerHTML = value, if value !== key
translateHtml(el, tr, cp) ==
    IF Differs(tOf(el, "data-i18n-html", tr, cp), el.attrs["data-i18n-html"])
    THEN [el EXCEPT
             !.kids = innerHTML(String(tOf(el, "data-i18n-html", tr, cp)), 1)]
    ELSE el

\* const attrAttrs
attrAttrs ==
    <<"data-i18n-attr", "data-i18n-placeholder", "data-i18n-title",
      "data-i18n-alt">>

\* attr.replace('data-i18n-', '')
attrName(attr) ==
    CASE attr = "data-i18n-attr" -> "attr"
      [] attr = "data-i18n-placeholder" -> "placeholder"
      [] attr = "data-i18n-title" -> "title"
      [] attr = "data-i18n-alt" -> "alt"

\* The callback of the attribute markers: el.setAttribute(attrName, value),
\* if value !== key
translateAttr(el, attr, tr, cp) ==
    IF Differs(tOf(el, attr, tr, cp), el.attrs[attr])
    THEN setAttribute(el, attrName(attr), String(tOf(el, attr, tr, cp)))
    ELSE el

\* Whether the element at p has left the document since the list that holds
\* it was made: the children of an element of written were replaced.
IsDetached(p, written) == \E q \in written : IsProperPrefix(q, p)

\* elements.forEach of the text markers, from element i of the list on. The
\* list is the one querySelectorAll returned before the loop; what is
\* written to an element that has left the document is not in the document.
RECURSIVE forEachText(_, _, _, _, _, _)
forEachText(d, list, i, written, tr, cp) ==
    IF i > Len(list) THEN d
    ELSE IF IsDetached(list[i], written)
    THEN forEachText(d, list, i + 1, written, tr, cp)
    ELSE LET el == NodeAt(d, list[i])
             now == translateText(el, tr, cp)
         IN  forEachText(ReplaceAt(d, list[i], now), list, i + 1,
                         IF Differs(tOf(el, "data-i18n", tr, cp),
                                    el.attrs["data-i18n"])
                         THEN written \cup {list[i]} ELSE written,
                         tr, cp)

\* forEach of the markup markers, from element i of the list on
RECURSIVE forEachHtml(_, _, _, _, _, _)
forEachHtml(d, list, i, written, tr, cp) ==
    IF i > Len(list) THEN d
    ELSE IF IsDetached(list[i], written)
    THEN forEachHtml(d, list, i + 1, written, tr, cp)
    ELSE LET el == NodeAt(d, list[i])
             now == translateHtml(el, tr, cp)
         IN  forEachHtml(ReplaceAt(d, list[i], now), list, i + 1,
                         IF Differs(tOf(el, "data-i18n-html", tr, cp),
                                    el.attrs["data-i18n-html"])
                         THEN written \cup {list[i]} ELSE written,
                         tr, cp)

\* forEach of the elements that carry attr, from element i of the list on
RECURSIVE forEachAttr(_, _, _, _, _, _)
forEachAttr(d, list, i, attr, tr, cp) ==
    IF i > Len(list) THEN d
    ELSE forEachAttr(ReplaceAt(d, list[i],
                               translateAttr(NodeAt(d, list[i]), attr, tr, cp)),
                     list, i + 1, attr, tr, cp)

\* attrAttrs.forEach, from attribute k of attrAttrs on: each list is made
\* when its turn comes
RECURSIVE forEachAttrAttr(_, _, _, _, _)
forEachAttrAttr(d, root, k, tr, cp) ==
    IF k > Len(attrAttrs) THEN d
    ELSE forEachAttrAttr(
             forEachAttr(d, querySelectorAll(d, root, attrAttrs[k]), 1,
                         attrAttrs[k], tr, cp),
             root, k + 1, tr, cp)

\* forEach of the buttons of the language switcher, from button i on
RECURSIVE forEachButton(_, _, _, _)
forEachButton(d, list, i, lang) ==
    IF i > Len(list) THEN d
    ELSE LET btn == NodeAt(d, list[i])
         IN  forEachButton(
                 ReplaceAt(d, list[i],
                           toggle(btn, "active",
                                  NameOf(getAttribute(btn, "data-lang")) = lang)),
                 list, i + 1, lang)

\* The loop of the text markers of applyTranslations(root)
applyTexts(d, root, tr, cp) ==
    forEachText(d, querySelectorAll(d, root, "data-i18n"), 1, {}, tr, cp)

\* The loop of the markup markers
applyHtmls(d, root, tr, cp) ==
    forEachHtml(d, querySelectorAll(d, root, "data-i18n-html"), 1, {}, tr, cp)

\* The loop of the buttons of the language switcher
applyButtons(d, root, lang) ==
    forEachButton(d, querySwitcherButtons(d, root), 1, lang)

\* The document after applyTranslations(root), lang being what getCurrentLang
\* returns. The loops run one after another, each on the document the loop
\* before it has made.
applyTranslations(d, root, tr, cp, lang) ==
    CHOOSE after \in
        { applyButtons(attrs, root, lang) :
            attrs \in { forEachAttrAttr(htmls, root, 1, tr, cp) :
                htmls \in { applyHtmls(texts, root, tr, cp) :
                    texts \in { applyTexts(d, root, tr, cp) } } } } : TRUE

\* The applyTranslations calls made so far.
Applied(c) == IF c.op = "applyTranslations" THEN c.n ELSE 0

\* I18N.applyTranslations(root): root is the document (the empty path, as
\* for applyTranslations()) or an element of it. The call of getCurrentLang
\* caches the language.
ApplyTranslations(root, bound) ==
    /\ Applied(call) < bound
    /\ root # <<>> => \E i \in 1..Len(Descendants(dom, <<>>, 1)) :
                          Descendants(dom, <<>>, 1)[i] = root
    /\ currentLang' = getCurrentLang(currentLang, stored, navLang)
    /\ dom' = applyTranslations(dom, root, translations, currentPage,
                                currentLang')
    /\ dispatched' = <<>>
    /\ ret' = Undefined
    /\ prev' = call
    /\ call' = [op |-> "applyTranslations", root |-> root,
                n |-> Applied(call) + 1, done |-> TRUE]
    /\ UNCHANGED <<pathname, translations, currentPage, stored, navLang, docLang, loads>>

(***************************************************************************)
(* The key resolver alone: getValue applied to a payload and a path.       *)
(***************************************************************************)
MaxPathLen == 5

SeqsUpTo(S, n) == UNION {[1..k -> S] : k \in 0..n}

\* The paths of at most n characters.
Paths(n) == SeqsUpTo(Alphabet, n)

\* Payloads as JSON.parse makes them, and undefined for a namespace that is
\* not in the registry.
LookupPayloads ==
    { Undefined,
      EmptyObject,
      Obj(<<"a">> :> Obj(<<"b">> :> Arr(<<Str(<<"x">>), Str(<<"y">>)>>))),
      Obj(<<"a">> :> Arr(<<Str(<<"x">>), Str(<<"y">>)>>)),
      Obj(<<"a">> :> EmptyObject),
      Obj((<<"a">> :> Str(<<"x">>)) @@ (<<"b">> :> Str(<<>>))),
      Obj((<<"a">> :> Null) @@ (<<"b">> :> Bool(FALSE))),
      Obj((<<"0">> :> Str(<<"x">>)) @@ (<<"a">> :> Obj(<<"1">> :> Str(<<"y">>)))),
      Arr(<<Str(<<"x">>), Obj(<<"a">> :> Str(<<"y">>))>>) }

NoCall == [op |-> "none", done |-> TRUE]

I18NIdle ==
    /\ currentLang = JsNull
    /\ currentPage = JsNull
    /\ translations = <<>>

EnvIdle ==
    /\ stored = JsNull
    /\ navLang = NoLocale
    /\ docLang = ""
    /\ dispatched = <<>>
    /\ loads = <<>>
    /\ dom = <<>>
    /\ pathname = <<>>

\* The calls getValue(obj, path) to be made, with paths of at most n
\* characters.
LookupCalls(n) ==
    { [op |-> "getValue", obj |-> o, path |-> p, done |-> FALSE] :
        o \in LookupPayloads, p \in Paths(n) }

InitLookup ==
    /\ I18NIdle
    /\ EnvIdle
    /\ call \in LookupCalls(MaxPathLen)
    /\ prev = NoCall
    /\ ret = Undefined

GetValueCall ==
    /\ call.op = "getValue"
    /\ ~call.done
    /\ call' = [call EXCEPT !.done = TRUE]
    /\ ret' = getValue(call.obj, call.path)
    /\ UNCHANGED <<pathname, currentLang, currentPage, translations, stored, navLang,
                   docLang, dispatched, loads, dom, prev>>

NextLookup == GetValueCall

SpecLookup == InitLookup /\ [][NextLookup]_vars

(***************************************************************************)
(* C6.  The three rules as the specification states them.                  *)
(***************************************************************************)
\* "Parses as a non-negative integer" is read in two ways: strictly, a
\* decimal numeral; or as Number() reads the segment, which also takes a
\* binary literal. The claim is taken to hold when either reading holds.
IsBinaryLiteral(seg) ==
    /\ Len(seg) >= 3
    /\ seg[1] = "0"
    /\ seg[2] = "b"
    /\ AllDigits(SubSeq(seg, 3, Len(seg)))

RECURSIVE BinaryValue(_)
BinaryValue(d) ==
    IF d = <<>> THEN 0
    ELSE 2 * BinaryValue(SubSeq(d, 1, Len(d) - 1)) + DigitValue(d[Len(d)])

IsNonNegativeInteger(seg, asNumber) ==
    \/ seg # <<>> /\ AllDigits(seg)
    \/ asNumber /\ IsBinaryLiteral(seg)

IntegerValue(seg) ==
    IF IsBinaryLiteral(seg) THEN BinaryValue(SubSeq(seg, 3, Len(seg)))
    ELSE DecimalValue(seg)

RECURSIVE RuleLookupFrom(_, _, _, _)
RuleLookupFrom(cur, segs, i, asNumber) ==
    IF i > Len(segs) THEN cur
    ELSE IF cur.t = "array" /\ IsNonNegativeInteger(segs[i], asNumber)
    THEN IF IntegerValue(segs[i]) < Len(cur.v)
         THEN RuleLookupFrom(cur.v[IntegerValue(segs[i]) + 1], segs, i + 1,
                             asNumber)
         ELSE Null
    ELSE IF cur.t = "object" /\ segs[i] \in DOMAIN cur.v
    THEN RuleLookupFrom(cur.v[segs[i]], segs, i + 1, asNumber)
    ELSE Null

RuleLookup(P, K, asNumber) ==
    IF K = <<>> THEN P ELSE RuleLookupFrom(P, split(K), 1, asNumber)

\* Not-found is null or undefined; any other two results agree when equal.
SameResult(x, y) ==
    \/ IsNullish(x) /\ IsNullish(y)
    \/ x.t = y.t /\ x = y

\* C6: for every payload and dotted path, getValue returns what the three
\* rules (index a sequence by a non-negative integer segment, descend a
\* mapping that contains the segment, otherwise not-found) return, and an
\* empty path returns the payload itself.
C6_ThreeRules ==
    call.op = "getValue" /\ call.done =>
        \E asNumber \in BOOLEAN :
            SameResult(ret, RuleLookup(call.obj, call.path, asNumber))

(***************************************************************************)
(* The fallback engine alone: t applied to a key and an optional namespace *)
(* under a registry and a current page.                                    *)
(***************************************************************************)
PageNames == {"index", "services", "solutions", "introduction", "contact"}

Namespaces == PageNames \cup {"header", "footer"}

\* What a namespace n holds when it has the keys: "a" with a value of its
\* own, and "b" stored as null.
PayloadOf(n) == Obj((<<"a">> :> Str(<<n>>)) @@ (<<"b">> :> Null))

\* Every registry in which each namespace is absent, empty or has the keys.
TRegistries ==
    { [n \in {m \in Namespaces : opt[m] # "absent"} |->
          IF opt[n] = "empty" THEN EmptyObject ELSE PayloadOf(n)] :
        opt \in [Namespaces -> {"absent", "empty", "has"}] }

TKeys == { <<"a">>, <<"b">>, <<>> }

\* No namespace (null), an empty data-i18n-ns, a known namespace, another.
TNamespaceArgs == {JsNull, ""} \cup Namespaces \cup {"other"}

TCalls ==
    { [op |-> "t", key |-> k, namespace |-> n, done |-> FALSE] :
        k \in TKeys, n \in TNamespaceArgs }

InitT ==
    /\ currentLang = JsNull
    /\ currentPage \in {JsNull} \cup PageNames
    /\ translations \in TRegistries
    /\ EnvIdle
    /\ call \in TCalls
    /\ prev = NoCall
    /\ ret = Undefined

TCall ==
    /\ call.op = "t"
    /\ ~call.done
    /\ call' = [call EXCEPT !.done = TRUE]
    /\ ret' = t(translations, currentPage, call.key, call.namespace)
    /\ UNCHANGED <<pathname, currentLang, currentPage, translations, stored, navLang,
                   docLang, dispatched, loads, dom, prev>>

NextT == TCall

SpecT == InitT /\ [][NextT]_vars

\* The key is found in namespace ns: the lookup gives a value.
Found(ns, key) == ~IsNullish(getValue(At(translations, ns), key))

\* The value of the first namespace of order in which key is found, and the
\* key itself when there is none.
FirstFound(order, key) ==
    IF \E i \in 1..Len(order) : Found(order[i], key)
    THEN LET i == CHOOSE j \in 1..Len(order) :
                      /\ Found(order[j], key)
                      /\ \A k \in 1..(j - 1) : ~Found(order[k], key)
         IN  getValue(At(translations, order[i]), key)
    ELSE Str(key)

TDone == call.op = "t" /\ call.done

(***************************************************************************)
(* C1.                                                                     *)
(***************************************************************************)
C1_Order ==
    (IF currentPage # JsNull THEN <<currentPage>> ELSE <<>>)
    \o <<"services", "solutions", "index", "introduction", "contact">>
    \o <<"header", "footer">>

\* C1: without an explicit namespace, t(key) returns the value of the first
\* of: the current page namespace, the page list, header, footer, in which
\* the key is found, and the key itself when it is found in none.
C1_DefaultOrder ==
    TDone /\ ~TruthyName(call.namespace) => ret = FirstFound(C1_Order, call.key)

\* A key in the current page and in footer, with different values, has
\* resolved to the page value.
C1_Witness ==
    /\ TDone
    /\ call.namespace = JsNull
    /\ call.key = <<"a">>
    /\ currentPage = "contact"
    /\ Found("contact", call.key)
    /\ Found("footer", call.key)
    /\ \A n \in Namespaces \ {"contact", "footer"} : ~Found(n, call.key)
    /\ ret = Str(<<"contact">>)
    /\ ret # getValue(At(translations, "footer"), call.key)

(***************************************************************************)
(* C2.                                                                     *)
(***************************************************************************)
C2_Tried == {call.namespace, currentPage}

C2_Order ==
    <<call.namespace>>
    \o (IF currentPage # JsNull /\ currentPage # call.namespace
        THEN <<currentPage>> ELSE <<>>)
    \o SelectSeq(<<"solutions", "services", "index", "introduction", "contact">>,
                 LAMBDA n : n \notin C2_Tried)
    \o <<"header", "footer">>

\* C2: with an explicit namespace ns, t(key, ns) returns the value of the
\* first of: ns, the current page namespace when it differs, the page list
\* without those two, header, footer, in which the key is found, and the key
\* itself when it is found in none.
C2_ExplicitOrder ==
    TDone /\ TruthyName(call.namespace) => ret = FirstFound(C2_Order, call.key)

\* A key missing from the explicit namespace and from the current page has
\* resolved to the value of a later page of the list.
C2_Witness ==
    /\ TDone
    /\ call.namespace = "header"
    /\ call.key = <<"a">>
    /\ currentPage = "index"
    /\ ~Found("header", call.key)
    /\ ~Found("index", call.key)
    /\ ~Found("solutions", call.key)
    /\ Found("services", call.key)
    /\ Found("contact", call.key)
    /\ Found("footer", call.key)
    /\ ret = Str(<<"services">>)

(***************************************************************************)
(* The language preference store with its environment: the stored item and *)
(* the reported locale may be anything, and may change at any time.        *)
(***************************************************************************)
StoredValues == {JsNull, "zh", "en", "fr", "ZH"}

Locales ==
    { NoLocale, <<>>, <<"z", "h", "-", "C", "N">>, <<"Z", "H">>,
      <<"e", "n", "-", "U", "S">>, <<"z">> }

SetLangArgs == {"zh", "en", "fr", "ZH", "", JsNull}

DocLangs == {"", "zh-CN", "en"}

InitLang ==
    /\ I18NIdle
    /\ stored \in StoredValues
    /\ navLang \in Locales
    /\ docLang \in DocLangs
    /\ dispatched = <<>>
    /\ loads = <<>>
    /\ dom = <<>>
    /\ call = NoCall
    /\ prev = NoCall
    /\ ret = Undefined
    /\ pathname = <<>>

\* The stored item is changed from outside (another tab, the user).
StorageChange ==
    /\ \E v \in StoredValues : stored' = v /\ stored' # stored
    /\ dispatched' = <<>>
    /\ prev' = call
    /\ call' = [op |-> "storage", done |-> TRUE]
    /\ ret' = Undefined
    /\ UNCHANGED <<pathname, currentLang, currentPage, translations, navLang, docLang,
                   loads, dom>>

\* The runtime reports another locale.
LocaleChange ==
    /\ \E v \in Locales : navLang' = v /\ navLang' # navLang
    /\ dispatched' = <<>>
    /\ prev' = call
    /\ call' = [op |-> "locale", done |-> TRUE]
    /\ ret' = Undefined
    /\ UNCHANGED <<pathname, currentLang, currentPage, translations, stored, docLang,
                   loads, dom>>

NextLang ==
    \/ GetCurrentLang
    \/ \E lang \in SetLangArgs : SetLang(lang)
    \/ StorageChange
    \/ LocaleChange

SpecLang == InitLang /\ [][NextLang]_vars

(***************************************************************************)
(* C3.                                                                     *)
(***************************************************************************)
\* C3: getCurrentLang() called right after setLang(L), L one of 'zh' and
\* 'en', returns L.
C3_SetThenGet ==
    /\ prev.op = "setLang"
    /\ prev.lang \in {"zh", "en"}
    /\ call.op = "getCurrentLang"
    => ret = prev.lang

\* getCurrentLang has returned 'en' right after setLang('en'), with a locale
\* that says 'zh'.
C3_Witness ==
    /\ prev.op = "setLang"
    /\ prev.lang = "en"
    /\ call.op = "getCurrentLang"
    /\ navLang = <<"z", "h", "-", "C", "N">>
    /\ ret = "en"

(***************************************************************************)
(* C4.                                                                     *)
(***************************************************************************)
\* C4: a step that is setLang with a value other than 'zh' and 'en' leaves
\* the active language, the stored preference and the document language as
\* they were and dispatches no notification.
C4_RejectedIsNoOp ==
    [][ call'.op = "setLang" /\ call'.lang \notin {"zh", "en"}
        => /\ currentLang' = currentLang
           /\ stored' = stored
           /\ docLang' = docLang
           /\ dispatched' = <<>> ]_vars

\* setLang('ZH') was called when 'en' was active, stored and shown.
C4_Witness ==
    /\ call.op = "setLang"
    /\ call.lang = "ZH"
    /\ prev.op = "setLang"
    /\ prev.lang = "en"
    /\ currentLang = "en"
    /\ stored = "en"
    /\ docLang = "en"
    /\ dispatched = <<>>

(***************************************************************************)
(* C5.                                                                     *)
(***************************************************************************)
\* C5 as stated: I18N.currentLang is 'zh' or 'en' in every reachable state.
C5_AlwaysRecognized == currentLang \in {"zh", "en"}

\* C5 as amended: I18N.currentLang is unset (null) until the first
\* getCurrentLang or accepted setLang, and after every step it is 'zh' or
\* 'en' unless it was unset before the step and the step is neither of them.
C5_UnsetThenRecognized ==
    [][ \/ currentLang' \in {"zh", "en"}
        \/ /\ currentLang' = JsNull
           /\ currentLang = JsNull
           /\ call'.op # "getCurrentLang"
           /\ ~(call'.op = "setLang" /\ call'.lang \in {"zh", "en"}) ]_vars

\* The language was detected from the locale, the stored item being no
\* recognized code, and cached.
C5_Witness ==
    /\ call.op = "getCurrentLang"
    /\ prev.op = "none"
    /\ stored = "fr"
    /\ navLang = <<"e", "n", "-", "U", "S">>
    /\ currentLang = "en"

(***************************************************************************)
(* The applicator with its documents: applyTranslations is called on a     *)
(* document or on an element of it, the registry being as the loader left  *)
(* it.                                                                     *)
(***************************************************************************)
MaxNodes == 2
MaxApplies == 2

\* The attributes an element of a page is written with.
ElementKinds ==
    { ("class" :> <<"lang-switcher">>),
      ("data-lang" :> <<"zh">>),
      ("data-i18n" :> <<"a">>),
      ("data-i18n-html" :> <<"b">>),
      ("data-i18n" :> <<"a">>) @@ ("data-i18n-html" :> <<"b">>)
          @@ ("data-i18n-ns" :> <<"header">>),
      ("data-i18n-title" :> <<"a">>) @@ ("title" :> <<"old">>) }

\* The runs of sibling elements with n elements in all, those below them
\* counted: an element without element children holds the text 'old'.
RECURSIVE Forests(_)
Forests(n) ==
    IF n = 0 THEN { <<>> }
    ELSE UNION { { <<Element(kind, IF kids = <<>> THEN <<Text(<<"old">>)>>
                                   ELSE kids)>> \o rest :
                       kind \in ElementKinds,
                       kids \in Forests(k),
                       rest \in Forests(n - 1 - k) } : k \in 0..(n - 1) }

\* The documents of at most n elements
Documents(n) == UNION { Forests(k) : k \in 0..n }

\* Markup that translation values hold.
MarkedMarkup == <<"<i data-i18n-html='b' data-i18n-title='a'>", "raw", "</i>">>
Switcher ==
    <<"<i class='lang-switcher'>", "<i data-lang='zh'>", "zh", "</i>", "</i>",
      "tail">>

\* The registry, the current page and the stored language the applicator
\* finds: nothing loaded; text and markup for both keys; the markup key
\* alone, its markup marked again; a switcher in the markup and the text
\* key in the header namespace alone, as an object; the text key alone, the
\* markup key null; the text key as the empty string and as markup.
Loaded ==
    { [tr |-> <<>>, cp |-> JsNull, stored |-> JsNull],
      [tr |-> "contact" :> Obj((<<"a">> :> Str(<<"new">>))
                               @@ (<<"b">> :> Str(MarkedText))),
       cp |-> "contact", stored |-> "zh"],
      [tr |-> "contact" :> Obj(<<"b">> :> Str(MarkedMarkup)),
       cp |-> "contact", stored |-> "en"],
      [tr |-> ("contact" :> Obj(<<"b">> :> Str(Switcher)))
              @@ ("header" :> Obj(<<"a">> :> EmptyObject)),
       cp |-> "contact", stored |-> "zh"],
      [tr |-> "index" :> Obj((<<"a">> :> Str(<<"new">>)) @@ (<<"b">> :> Null)),
       cp |-> "index", stored |-> "en"],
      [tr |-> ("index" :> Obj((<<"a">> :> Str(<<>>))
                              @@ (<<"b">> :> Str(<<"new">>))))
              @@ ("footer" :> Obj(<<"a">> :> Str(MarkedText))),
       cp |-> "contact", stored |-> "zh"] }

\* The roots applyTranslations is called with: the document and its first
\* element.
ApplyRoots == { <<>>, <<1>> }

InitApply ==
    /\ currentLang = JsNull
    /\ \E l \in Loaded :
          /\ translations = l.tr
          /\ currentPage = l.cp
          /\ stored = l.stored
    /\ navLang = NoLocale
    /\ docLang = ""
    /\ dispatched = <<>>
    /\ loads = <<>>
    /\ dom \in Documents(MaxNodes)
    /\ call = NoCall
    /\ prev = NoCall
    /\ ret = Undefined
    /\ pathname = <<>>

NextApply == \E root \in ApplyRoots : ApplyTranslations(root, MaxApplies)

SpecApply == InitApply /\ [][NextApply]_vars

(***************************************************************************)
(* C7.                                                                     *)
(***************************************************************************)
\* The marker attributes of applyTranslations; the first two write content.
ContentMarkers == {"data-i18n", "data-i18n-html"}

Markers == ContentMarkers \cup {attrAttrs[k] : k \in DOMAIN attrAttrs}

\* The key of marker attr of el is found: t returns another value than it.
Resolves(el, attr) ==
    /\ attr \in DOMAIN el.attrs
    /\ Differs(tOf(el, attr, translations, currentPage), el.attrs[attr])

\* The elements a pass on root looks at: those below root.
Below(d, root) == Descendants(KidsAt(d, root), root, 1)

\* The element at e leaves the document in a pass on root: the content of
\* an element between root and e is written.
Leaves(d, root, e) ==
    \E k \in (Len(root) + 1)..(Len(e) - 1) :
        \E attr \in ContentMarkers : Resolves(NodeAt(d, SubSeq(e, 1, k)), attr)

\* The target attribute of marker attr of the element is the same in both.
SameTarget(before, after, attr) ==
    attr \notin ContentMarkers
        => getAttribute(after, attrName(attr)) = getAttribute(before, attrName(attr))

\* C7: every element below the root of a pass that carries a marker whose
\* key is found in no namespace (t returns the key), and that stays in the
\* document, has after the pass the children (text content, inner markup)
\* and the target attribute it had before the pass.
C7_NoMatchLeavesElement ==
    [][ call'.op = "applyTranslations"
        => \A i \in 1..Len(Below(dom, call'.root)) :
              LET e == Below(dom, call'.root)[i]
                  el == NodeAt(dom, e)
              IN  \A attr \in Markers \cap DOMAIN el.attrs :
                      ~Resolves(el, attr) /\ ~Leaves(dom, call'.root, e)
                      => /\ NodeAt(dom', e).kids = el.kids
                         /\ SameTarget(el, NodeAt(dom', e), attr) ]_vars

\* Nothing else writes the content of the element at e: no content marker
\* of the element resolves, and no element below it carries a marker that
\* resolves or is a button of a language switcher.
Quiet(d, e) ==
    /\ \A attr \in ContentMarkers : ~Resolves(NodeAt(d, e), attr)
    /\ \A i \in 1..Len(Below(d, e)) :
          /\ \A attr \in Markers : ~Resolves(NodeAt(d, Below(d, e)[i]), attr)
          /\ ~MatchesSwitcherButton(d, Below(d, e)[i])

\* C7 as amended: for a marker whose key is found in no namespace nothing
\* is written. The element, if it stays in the document, has after the pass
\* the target attribute it had before; and it has the children it had
\* before unless another marker of it, or a marker of an element below it,
\* resolves, or a button of a language switcher is below it.
C7_NoMatchNoWrite ==
    [][ call'.op = "applyTranslations"
        => \A i \in 1..Len(Below(dom, call'.root)) :
              LET e == Below(dom, call'.root)[i]
                  el == NodeAt(dom, e)
              IN  \A attr \in Markers \cap DOMAIN el.attrs :
                      ~Resolves(el, attr) /\ ~Leaves(dom, call'.root, e)
                      => /\ SameTarget(el, NodeAt(dom', e), attr)
                         /\ Quiet(dom, e) => NodeAt(dom', e).kids = el.kids ]_vars

\* After a pass on the document, the text key being in no namespace: the
\* element with the title marker is as it was written, next to an element
\* whose markup marker resolved.
C7_Witness ==
    /\ call.op = "applyTranslations"
    /\ call.n = 1
    /\ call.root = <<>>
    /\ translations = "contact" :> Obj(<<"b">> :> Str(MarkedMarkup))
    /\ Len(dom) = 2
    /\ dom[1] = Element(("data-i18n-title" :> <<"a">>) @@ ("title" :> <<"old">>),
                        <<Text(<<"old">>)>>)
    /\ dom[2] = Element("data-i18n-html" :> <<"b">>,
                        <<Element(("data-i18n-html" :> <<"b">>)
                                      @@ ("data-i18n-title" :> <<"a">>),
                                  <<Text(<<"raw">>)>>)>>)

(***************************************************************************)
(* C8.                                                                     *)
(***************************************************************************)
\* C8: a pass that follows a pass on the same root, the registry, the
\* current page and the language being the same, leaves the document as the
\* first pass left it.
C8_Idempotent ==
    [][ /\ call.op = "applyTranslations"
        /\ call'.op = "applyTranslations"
        /\ call'.root = call.root
        /\ translations' = translations
        /\ currentPage' = currentPage
        /\ currentLang' = currentLang
        => dom' = dom ]_vars

\* Two passes on the document were made: the markup of an element with a
\* markup marker holds a marked element as the value has it, below an
\* element with a text marker whose key is not found.
C8_Witness ==
    /\ call.op = "applyTranslations"
    /\ call.n = 2
    /\ prev.op = "applyTranslations"
    /\ prev.root = call.root
    /\ call.root = <<>>
    /\ translations = "contact" :> Obj(<<"b">> :> Str(MarkedMarkup))
    /\ dom = <<Element("data-i18n" :> <<"a">>,
                       <<Element("data-i18n-html" :> <<"b">>,
                                 innerHTML(MarkedMarkup, 1))>>)>>

(***************************************************************************)
(* The loader with its requests: aggregate loads are started and their     *)
(* requests end one by one, in any order and in any way.                   *)
(***************************************************************************)
MaxLoads == 1

\* loadTranslations(['header', 'footer', pageName]) as translatePage calls
\* it, and a load of one namespace.
LoadNameLists == { <<"header", "footer", "contact">>, <<"contact">> }

\* The positions of a name in a list of names.
FetchIndices == UNION {DOMAIN names : names \in LoadNameLists}

InitLoad ==
    /\ I18NIdle
    /\ stored \in {JsNull, "en"}
    /\ navLang = NoLocale
    /\ docLang = ""
    /\ dispatched = <<>>
    /\ loads = <<>>
    /\ dom = <<>>
    /\ call = NoCall
    /\ prev = NoCall
    /\ ret = Undefined
    /\ pathname = <<>>

\* A request ends: the step of a network that does not stall for ever.
SomeFetchSettles ==
    \E l \in 1..MaxLoads, i \in FetchIndices, outcome \in Outcomes :
        FetchSettles(l, i, outcome)

NextLoad ==
    \/ \E names \in LoadNameLists : LoadTranslations(names, MaxLoads)
    \/ SomeFetchSettles

SpecLoad == InitLoad /\ [][NextLoad]_vars

\* While a request is pending, some request ends at some time.
FairSpecLoad == SpecLoad /\ WF_vars(SomeFetchSettles)

(***************************************************************************)
(* C9.                                                                     *)
(***************************************************************************)
\* What the registry holds for names[i] of a load once the load has resolved.
C9_Expected(load, i) ==
    IF load.fetches[i].outcome = "ok"
    THEN FilePayload(load.names[i], load.lang)
    ELSE EmptyObject

\* C9: no promise of loadTranslation and no aggregate load is ever rejected;
\* a request that ended with a non-success response, a network failure or an
\* unparsable body has fulfilled its promise with the empty payload; and when
\* a load resolves, the registry holds the empty object for each such
\* namespace and the file's payload for each namespace that loaded.
C9_FailureDegradesToEmpty ==
    /\ \A l \in DOMAIN loads :
          /\ loads[l].st # "rejected"
          /\ \A i \in DOMAIN loads[l].fetches :
                LET f == loads[l].fetches[i]
                IN  /\ f.st # "rejected"
                    /\ f.outcome \in Failures
                       => f.st = "fulfilled" /\ f.value = EmptyObject
    /\ call.op = "settle"
       => \A l \in call.resolved :
             \A i \in DOMAIN loads[l].names :
                At(translations, loads[l].names[i]) = C9_Expected(loads[l], i)

\* The English file of contact got a non-success response: the load has
\* resolved, contact holds the empty object, header and footer their files.
C9_Witness ==
    /\ call.op = "settle"
    /\ call.resolved = {1}
    /\ loads[1].names = <<"header", "footer", "contact">>
    /\ loads[1].lang = "en"
    /\ loads[1].fetches[3].outcome = "http"
    /\ loads[1].fetches[1].outcome = "ok"
    /\ loads[1].fetches[2].outcome = "ok"
    /\ translations["contact"] = EmptyObject
    /\ translations["header"] = FilePayload("header", "en")
    /\ translations["footer"] = FilePayload("footer", "en")

(***************************************************************************)
(* C10.                                                                    *)
(***************************************************************************)
C10_Resolved(l) == l \in DOMAIN loads /\ loads[l].st = "fulfilled"

\* C10: an aggregate load is never rejected and is resolved only when none
\* of its requests is pending; and, pending requests ending at some time,
\* every load that was started resolves: from some time on, every load that
\* was ever started is resolved.
C10_ResolvesAfterAllSettle ==
    /\ [](\A l \in DOMAIN loads :
            /\ loads[l].st # "rejected"
            /\ loads[l].st = "fulfilled"
               => \A i \in DOMAIN loads[l].fetches :
                     loads[l].fetches[i].st # "pending")
    /\ <>[](\A l \in DOMAIN loads : C10_Resolved(l))

\* A load of three namespaces has resolved although one request failed.
C10_Witness ==
    \E l \in DOMAIN loads :
        /\ loads[l].st = "fulfilled"
        /\ Len(loads[l].names) = 3
        /\ loads[l].fetches[1].outcome = "network"
        /\ loads[l].fetches[2].outcome = "ok"
        /\ loads[l].fetches[3].outcome = "ok"

(***************************************************************************)
(* The path resolver, I18N.getPageName. window.location.pathname is a      *)
(* sequence of the separators "/" and ":", the dot, and words, a word      *)
(* being a run of other characters written as one element.                 *)
(***************************************************************************)
\* The characters the class [^\:\\\/] of the pattern leaves out
ClassExcluded == {":", "\\", "/"}

\* The words that begin with 'html' in any case: what /html/i matches at
\* the start of.
IsHtml(w) == w \in {"html", "HTML"}

\* String.prototype.toLowerCase, on the words paths are written with
LowerCaseWord(w) ==
    CASE w = "Contact" -> "contact"
      [] w = "HTML" -> "html"
      [] OTHER -> w

\* Whether /([^\:\\\/]+)\.html/i matches with its group on path[i..j-1]
MatchesAt(path, i, j) ==
    /\ i < j
    /\ j + 1 <= Len(path)
    /\ \A k \in i..(j - 1) : path[k] \notin ClassExcluded
    /\ path[j] = "."
    /\ IsHtml(path[j + 1])

\* Where the match of path.match(...) starts: the leftmost position a match
\* starts at, 0 when there is none (match is null).
MatchStart(path) ==
    LET starts == { i \in 1..Len(path) :
                       \E j \in 1..Len(path) : MatchesAt(path, i, j) }
    IN  IF starts = {} THEN 0
        ELSE CHOOSE i \in starts : \A k \in starts : i <= k

\* match[1]: the group is greedy, it ends at the last '.html' it can.
MatchGroup(path) ==
    LET i == MatchStart(path)
        ends == { j \in 1..Len(path) : MatchesAt(path, i, j) }
        j == CHOOSE e \in ends : \A k \in ends : k <= e
    IN  SubSeq(path, i, j - 1)

\* What pageMap[page] reads from an object literal with no such key: the
\* function Object, inherited as 'constructor'.
ObjectConstructor == "<function Object>"

\* pageMap[page]: the five own keys, and of the inherited ones the one
\* that paths are written with here; JsNull stands for undefined.
pageMap(page) ==
    IF Len(page) = 1 /\ page[1] \in PageNames THEN page[1]
    ELSE IF page = <<"constructor">> THEN ObjectConstructor
    ELSE JsNull

\* pageMap[page] || 'index'
OrIndex(value) == IF value = JsNull THEN "index" ELSE value

\* A getPageName that removes no trailing slash
keepTrailingSlash(path) == path

\* path.replace(/\/$/, '')
stripTrailingSlash(path) ==
    IF path # <<>> /\ path[Len(path)] = "/"
    THEN SubSeq(path, 1, Len(path) - 1)
    ELSE path

\* segments[segments.length - 1] of cleanPath.split('/')
RECURSIVE LastSegment(_)
LastSegment(path) ==
    IF path = <<>> THEN <<>>
    ELSE IF path[Len(path)] = "/" THEN <<>>
    ELSE Append(LastSegment(SubSeq(path, 1, Len(path) - 1)), path[Len(path)])

\* I18N.getPageName(), of window.location.pathname
getPageName(path) ==
    IF MatchStart(path) # 0
    THEN OrIndex(pageMap([k \in 1..Len(MatchGroup(path)) |->
                              LowerCaseWord(MatchGroup(path)[k])]))
    ELSE LET cleanPath == stripTrailingSlash(path)
         IN  IF cleanPath = <<>> \/ cleanPath = <<"/">> THEN "index"
             ELSE OrIndex(pageMap(LastSegment(cleanPath)))

(***************************************************************************)
(* The path resolver alone: getPageName applied to a path.                 *)
(***************************************************************************)
MaxPathWords == 5

\* What paths are written with
PathWords ==
    {"/", ":", ".", "html", "HTML", "Contact", "unknown-page", "constructor"}
        \cup PageNames

\* The calls getPageName() to be made, with paths of at most n elements: a
\* path is empty or begins with a slash.
PageCalls(n) ==
    { [op |-> "getPageName", path |-> p, done |-> FALSE] :
        p \in { <<>> } \cup { <<"/">> \o q : q \in SeqsUpTo(PathWords, n - 1) } }

InitPage ==
    /\ I18NIdle
    /\ EnvIdle
    /\ call \in PageCalls(MaxPathWords)
    /\ prev = NoCall
    /\ ret = Undefined

GetPageNameCall ==
    /\ call.op = "getPageName"
    /\ ~call.done
    /\ call' = [call EXCEPT !.done = TRUE]
    /\ ret' = getPageName(call.path)
    /\ UNCHANGED <<pathname, currentLang, currentPage, translations, stored, navLang,
                   docLang, dispatched, loads, dom, prev>>

NextPage == GetPageNameCall

SpecPage == InitPage /\ [][NextPage]_vars

(***************************************************************************)
(* C11.                                                                    *)
(***************************************************************************)
\* C11: for every page p of the five, getPageName returns p for '/p.html'
\* (the base name lowercased first, the suffix in any case), '/p' and '/p/',
\* and it returns 'index' for '/' and for the empty path.
C11_KnownPaths ==
    call.op = "getPageName" /\ call.done =>
        /\ \A p \in PageNames :
              /\ call.path \in { <<"/", p>>, <<"/", p, "/">> } => ret = p
              /\ \A w \in PathWords, h \in {"html", "HTML"} :
                    call.path = <<"/", w, ".", h>> /\ LowerCaseWord(w) = p
                    => ret = p
        /\ call.path \in { <<"/">>, <<>> } => ret = "index"

\* '/Contact.HTML' was resolved to contact.
C11_Witness ==
    /\ call.op = "getPageName"
    /\ call.done
    /\ call.path = <<"/", "Contact", ".", "HTML">>
    /\ ret = "contact"

(***************************************************************************)
(* C20.                                                                    *)
(***************************************************************************)
\* The name getPageName looks up: the base name lowercased, or the final
\* segment of the path without its trailing slash.
LookedUp(path) ==
    IF MatchStart(path) # 0
    THEN [k \in 1..Len(MatchGroup(path)) |-> LowerCaseWord(MatchGroup(path)[k])]
    ELSE LastSegment(stripTrailingSlash(path))

\* C20: for every path getPageName returns one of index, services,
\* solutions, introduction, contact; and it returns 'index' when the base
\* name or final segment is none of the five.
C20_AllowListed ==
    call.op = "getPageName" /\ call.done =>
        /\ ret \in PageNames
        /\ ~(Len(LookedUp(call.path)) = 1 /\ LookedUp(call.path)[1] \in PageNames)
           => ret = "index"

(***************************************************************************)
(* C13.                                                                    *)
(***************************************************************************)
\* C13: after every accepted setLang(L), also when L was the language
\* already, the cached language is L, the stored item is L, the language
\* attribute of the document is the one of L, and exactly one 'langchange'
\* was dispatched, with L; and no step dispatches anything else.
C13_OneNotification ==
    /\ call.op = "setLang" /\ Recognized(call.lang)
       => /\ currentLang = call.lang
          /\ stored = call.lang
          /\ docLang = DocLangOf(call.lang)
          /\ dispatched = <<call.lang>>
    /\ \A i \in DOMAIN dispatched :
          call.op = "setLang" /\ dispatched[i] = call.lang

\* setLang('en') was called again when 'en' was the language.
C13_Witness ==
    /\ prev.op = "setLang"
    /\ prev.lang = "en"
    /\ call.op = "setLang"
    /\ call.lang = "en"
    /\ dispatched = <<"en">>
    /\ docLang = "en"

(***************************************************************************)
(* C17.                                                                    *)
(***************************************************************************)
\* C17: when a load resolves, in whatever order its requests ended, the
\* registry holds for each requested name the value its own request was
\* fulfilled with, and for no name the file of another name of the load.
C17_NamesKeepTheirResults ==
    call.op = "settle" =>
        \A l \in call.resolved :
            \A i \in DOMAIN loads[l].names :
                /\ At(translations, loads[l].names[i])
                       = OrEmpty(loads[l].fetches[i].value)
                /\ \A j \in DOMAIN loads[l].names :
                       loads[l].names[j] # loads[l].names[i]
                       => At(translations, loads[l].names[i])
                              # FilePayload(loads[l].names[j], loads[l].lang)

\* The request made first ended last, all three with their files: each
\* name holds its own file.
C17_Witness ==
    /\ call.op = "settle"
    /\ call.resolved = {1}
    /\ call.index = 1
    /\ loads[1].names = <<"header", "footer", "contact">>
    /\ \A i \in 1..3 : loads[1].fetches[i].outcome = "ok"
    /\ \A i \in 1..3 :
          translations[loads[1].names[i]]
              = FilePayload(loads[1].names[i], loads[1].lang)

(***************************************************************************)
(* The page controller: translatePage, updateMetaTags, switchLang and the  *)
(* listeners of 'headerLoaded' and 'footerLoaded'. The tag of an element   *)
(* that is looked up by its tag is kept with its attributes, under "tag".  *)
(***************************************************************************)
\* The first element of the list, or the empty path (null) if it has none.
FirstOrNull(list) == IF list = <<>> THEN <<>> ELSE Head(list)

\* document.getElementById(id): the path of the element, or the empty path
getElementById(d, id) ==
    FirstOrNull(SelectSeq(Descendants(d, <<>>, 1),
                          LAMBDA p : getAttribute(NodeAt(d, p), "id") = <<id>>))

\* document.querySelector('.' + name)
querySelectorClass(d, name) ==
    FirstOrNull(SelectSeq(Descendants(d, <<>>, 1),
                          LAMBDA p : HasClass(NodeAt(d, p), name)))

\* The first element with the tag
querySelectorTag(d, tag) ==
    FirstOrNull(SelectSeq(Descendants(d, <<>>, 1),
                          LAMBDA p : getAttribute(NodeAt(d, p), "tag") = <<tag>>))

\* document.querySelector('meta[name="description"]')
querySelectorMetaDescription(d) ==
    FirstOrNull(SelectSeq(Descendants(d, <<>>, 1),
                          LAMBDA p :
                              /\ getAttribute(NodeAt(d, p), "tag") = <<"meta">>
                              /\ getAttribute(NodeAt(d, p), "name")
                                     = <<"description">>))

\* parent.appendChild(node), parent being the element at p
appendChild(d, p, node) ==
    ReplaceAt(d, p, [NodeAt(d, p) EXCEPT !.kids = Append(@, node)])

\* x[key] of a value read from a payload
Property(x, key) ==
    IF x.t = "object" /\ key \in DOMAIN x.v THEN x.v[key] ELSE Undefined

\* document.title = value: the text of the title element, which is made in
\* the head when there is none
setTitle(d, value) ==
    IF querySelectorTag(d, "title") # <<>>
    THEN ReplaceAt(d, querySelectorTag(d, "title"),
                   [NodeAt(d, querySelectorTag(d, "title")) EXCEPT
                       !.kids = textContent(String(value))])
    ELSE IF querySelectorTag(d, "head") # <<>>
    THEN appendChild(d, querySelectorTag(d, "head"),
                     Element("tag" :> <<"title">>, textContent(String(value))))
    ELSE d

\* The lines of updateMetaTags on the description: the meta element is
\* made and appended to the head when there is none
setDescription(d, value) ==
    LET made == IF querySelectorMetaDescription(d) # <<>> THEN d
                ELSE appendChild(d, querySelectorTag(d, "head"),
                                 Element(("tag" :> <<"meta">>)
                                             @@ ("name" :> <<"description">>),
                                         <<>>))
        metaDesc == querySelectorMetaDescription(made)
    IN  ReplaceAt(made, metaDesc,
                  setAttribute(NodeAt(made, metaDesc), "content", String(value)))

\* An updateMetaTags that writes the title it is given or, for want of
\* one, the name of the page.
updateMetaTagsAlways(d, tr, pageName) ==
    LET meta == Property(At(tr, pageName), <<"meta">>)
    IN  setTitle(d, IF Truthy(Property(meta, <<"title">>))
                    THEN Property(meta, <<"title">>)
                    ELSE Str(<<pageName>>))

\* I18N.updateMetaTags(pageName)
updateMetaTags(d, tr, pageName) ==
    LET pageData == At(tr, pageName)
        meta == Property(pageData, <<"meta">>)
        titled == IF Truthy(Property(meta, <<"title">>))
                  THEN setTitle(d, Property(meta, <<"title">>))
                  ELSE d
    IN  IF Truthy(pageData) /\ Truthy(meta)
        THEN IF Truthy(Property(meta, <<"description">>))
             THEN setDescription(titled, Property(meta, <<"description">>))
             ELSE titled
        ELSE d

\* if (el) I18N.applyTranslations(el)
applyIfFound(d, el, tr, cp, lang) ==
    IF el # <<>> THEN applyTranslations(d, el, tr, cp, lang) ELSE d

\* The lines of switchLang after await I18N.translatePage(): the elements
\* are looked up first, then header, footer and sticky header are applied.
reapplyFragments(d, tr, cp, lang) ==
    LET header == getElementById(d, "site-header")
        footer == getElementById(d, "site-footer")
        stickyHeader == querySelectorClass(d, "sticky-header__content")
    IN  applyIfFound(applyIfFound(applyIfFound(d, header, tr, cp, lang),
                                  footer, tr, cp, lang),
                     stickyHeader, tr, cp, lang)

\* A call of translatePage that is waiting for its load: the load, whether
\* switchLang made the call, and whether an earlier pass was in flight when
\* it was made.
Pass(names, lang, from, overlaps) ==
    [names |-> names, lang |-> lang,
     fetches |-> [i \in 1..Len(names) |-> PendingFetch],
     st |-> "pending", from |-> from, overlaps |-> overlaps]

\* I18N.translatePage() of the auto-initialisation, up to its await
PageLoad ==
    /\ loads = <<>>
    /\ currentPage' = getPageName(pathname)
    /\ currentLang' = getCurrentLang(currentLang, stored, navLang)
    /\ loads' = <<Pass(<<"header", "footer", currentPage'>>, currentLang', "load",
                       FALSE)>>
    /\ dispatched' = <<>>
    /\ ret' = Undefined
    /\ call' = [op |-> "translatePage", done |-> TRUE]
    /\ UNCHANGED <<pathname, translations, stored, navLang, docLang, dom, prev>>

\* window.switchLang(lang), up to its await: setLang, then translatePage up
\* to its await
SwitchLang(lang, bound) ==
    /\ loads # <<>>
    /\ Len(loads) < bound
    /\ IF Recognized(lang)
       THEN /\ currentLang' = lang
            /\ stored' = lang
            /\ docLang' = DocLangOf(lang)
            /\ dispatched' = <<lang>>
       ELSE /\ currentLang' = getCurrentLang(currentLang, stored, navLang)
            /\ dispatched' = <<>>
            /\ UNCHANGED <<stored, docLang>>
    /\ currentPage' = getPageName(pathname)
    /\ loads' = Append(loads, Pass(<<"header", "footer", currentPage'>>,
                                   currentLang', "switch",
                                   \E l \in DOMAIN loads :
                                       loads[l].st = "pending"))
    /\ ret' = Undefined
    /\ call' = [op |-> "switchLang", lang |-> lang, pass |-> Len(loads') ,
                done |-> TRUE]
    /\ UNCHANGED <<pathname, translations, navLang, dom, prev>>

\* The request for names[i] of pass l ends with outcome. When that settles
\* the load of the pass, the callers that wait for it run in the same
\* turn: the registry is written, translatePage applies the document and
\* updates the meta tags, and switchLang, if it made the call, applies the
\* fragments. call.completed holds the pass the step completed.
ResponseArrives(l, i, outcome) ==
    /\ l \in DOMAIN loads
    /\ i \in DOMAIN loads[l].fetches
    /\ loads[l].fetches[i].st = "pending"
    /\ LET load == loads[l]
           fetches == [load.fetches EXCEPT
                          ![i] = loadTranslation(load.names[i], load.lang, outcome)]
           all == PromiseAll(fetches)
       IN  /\ loads' = [loads EXCEPT ![l] = [load EXCEPT !.fetches = fetches,
                                                          !.st = all]]
           /\ call' = [op |-> "response",
                       completed |-> IF all = "fulfilled" THEN {l} ELSE {},
                       done |-> TRUE]
           /\ IF all # "fulfilled"
              THEN UNCHANGED <<translations, dom>>
              ELSE \E tr \in {StoreResults(translations, load.names, fetches, 1)} :
                   \E lang \in {getCurrentLang(currentLang, stored, navLang)} :
                   \E applied \in {applyTranslations(dom, <<>>, tr,
                                                      currentPage, lang)} :
                   \E page \in {updateMetaTags(applied, tr, load.names[3])} :
                       /\ translations' = tr
                       /\ dom' = IF load.from = "switch"
                                 THEN reapplyFragments(page, tr, currentPage, lang)
                                 ELSE page
    /\ dispatched' = <<>>
    /\ ret' = Undefined
    /\ UNCHANGED <<pathname, currentLang, currentPage, stored, navLang, docLang,
                   prev>>

\* header.html and footer.html as the include mechanism injects them: a
\* language switcher and a text marker of the header namespace; a text
\* marker of the footer namespace and a title marker. The sticky header
\* gets a copy of the menu of the header.
HeaderMenu ==
    Element(("data-i18n" :> <<"a">>) @@ ("data-i18n-ns" :> <<"header">>),
            <<Text(<<"raw">>)>>)

HeaderFragment ==
    <<Element("class" :> <<"lang-switcher">>,
              <<Element("data-lang" :> <<"zh">>, <<Text(<<"zh">>)>>),
                Element("data-lang" :> <<"en">>, <<Text(<<"en">>)>>)>>),
      HeaderMenu>>

FooterFragment ==
    <<Element(("data-i18n" :> <<"a">>) @@ ("data-i18n-ns" :> <<"footer">>)
                  @@ ("data-i18n-title" :> <<"a">>),
              <<Text(<<"raw">>)>>)>>

\* The children of the element at p replaced, if there is such an element
setInnerNodes(d, p, nodes) ==
    IF p = <<>> THEN d ELSE ReplaceAt(d, p, [NodeAt(d, p) EXCEPT !.kids = nodes])

\* The include mechanism has fetched header.html: it fills #site-header
\* and copies the menu to the sticky header.
injectHeader(d) ==
    setInnerNodes(setInnerNodes(d, getElementById(d, "site-header"),
                                HeaderFragment),
                  querySelectorClass(d, "sticky-header__content"),
                  <<HeaderMenu>>)

\* The include mechanism has fetched footer.html: it fills #site-footer.
injectFooter(d) ==
    setInnerNodes(d, getElementById(d, "site-footer"), FooterFragment)

\* The listener of 'headerLoaded'
onHeaderLoaded(d, tr, cp, lang) ==
    LET header == getElementById(d, "site-header")
        stickyHeader == querySelectorClass(d, "sticky-header__content")
    IN  applyIfFound(applyIfFound(d, header, tr, cp, lang),
                     stickyHeader, tr, cp, lang)

\* A listener of 'footerLoaded' that applies the document.
onFooterLoadedDocument(d, tr, cp, lang) ==
    applyTranslations(d, <<>>, tr, cp, lang)

\* The listener of 'footerLoaded': the element is not tested, and
\* applyTranslations takes null for the document.
onFooterLoaded(d, tr, cp, lang) ==
    applyTranslations(d, getElementById(d, "site-footer"), tr, cp, lang)

\* Whether the fragment was injected: the placeholder with the id has
\* children.
IsInjected(d, id) ==
    getElementById(d, id) # <<>> /\ KidsAt(d, getElementById(d, id)) # <<>>

\* The header is injected and 'headerLoaded' is dispatched: the listener
\* runs. The call of getCurrentLang in applyTranslations caches the
\* language.
HeaderLoaded ==
    /\ getElementById(dom, "site-header") # <<>>
    /\ ~IsInjected(dom, "site-header")
    /\ currentLang' = getCurrentLang(currentLang, stored, navLang)
    /\ dom' = onHeaderLoaded(injectHeader(dom), translations, currentPage,
                             currentLang')
    /\ dispatched' = <<>>
    /\ ret' = Undefined
    /\ call' = [op |-> "headerLoaded", done |-> TRUE]
    /\ UNCHANGED <<pathname, currentPage, translations, stored, navLang,
                   docLang, loads, prev>>

\* The footer is injected and 'footerLoaded' is dispatched: the listener
\* runs.
FooterLoaded ==
    /\ getElementById(dom, "site-footer") # <<>>
    /\ ~IsInjected(dom, "site-footer")
    /\ currentLang' = getCurrentLang(currentLang, stored, navLang)
    /\ dom' = onFooterLoaded(injectFooter(dom), translations, currentPage,
                             currentLang')
    /\ dispatched' = <<>>
    /\ ret' = Undefined
    /\ call' = [op |-> "footerLoaded", done |-> TRUE]
    /\ UNCHANGED <<pathname, currentPage, translations, stored, navLang,
                   docLang, loads, prev>>

(***************************************************************************)
(* The page controller with its page: a page of the site is opened, the    *)
(* fragments are injected and the language is switched at any time, and    *)
(* the requests end in any order.                                          *)
(***************************************************************************)
MaxPasses == 2

\* A page that uses the includes: head with title and description, the
\* placeholders of header and footer, the sticky header, and between them
\* an element with a text marker and one with a markup marker.
PageDocument ==
    <<Element("tag" :> <<"head">>,
              <<Element("tag" :> <<"title">>, <<Text(<<"old">>)>>),
                Element(("tag" :> <<"meta">>) @@ ("name" :> <<"description">>)
                            @@ ("content" :> <<"old">>),
                        <<>>)>>),
      Element("id" :> <<"site-header">>, <<>>),
      Element("class" :> <<"sticky-header__content">>, <<>>),
      Element("data-i18n" :> <<"a">>, <<Text(<<"old">>)>>),
      Element("data-i18n-html" :> <<"b">>, <<Text(<<"old">>)>>),
      Element("id" :> <<"site-footer">>, <<>>)>>

\* The addresses the page is opened at
PagePaths == { <<"/", "contact", ".", "html">>, <<"/">> }

\* The languages switchLang is called with
SwitchLangArgs == {"zh", "en"}

InitFlow ==
    /\ I18NIdle
    /\ stored = JsNull
    /\ navLang = NoLocale
    /\ docLang = ""
    /\ dispatched = <<>>
    /\ loads = <<>>
    /\ dom = PageDocument
    /\ pathname \in PagePaths
    /\ call = NoCall
    /\ prev = NoCall
    /\ ret = Undefined

\* How the requests of the page end: with the file, or with a response that
\* is not a success.
FlowOutcomes == {"ok", "http"}

\* A request of a pass ends.
SomeResponseArrives ==
    \E l \in 1..MaxPasses, i \in 1..3, outcome \in FlowOutcomes :
        ResponseArrives(l, i, outcome)

NextFlow ==
    \/ PageLoad
    \/ \E lang \in SwitchLangArgs : SwitchLang(lang, MaxPasses)
    \/ SomeResponseArrives
    \/ HeaderLoaded
    \/ FooterLoaded

SpecFlow == InitFlow /\ [][NextFlow]_vars

(***************************************************************************)
(* C12.                                                                    *)
(***************************************************************************)
\* No pass is in flight.
NoPassInFlight == \A l \in DOMAIN loads : loads[l].st # "pending"

\* The step just taken completed a pass that switchLang started, and with
\* it switchLang: the language it was called with is that of the pass.
SwitchCompleted(l) ==
    /\ call.op = "response"
    /\ l \in call.completed
    /\ loads[l].from = "switch"

\* The element shows the value for its marker attr: as its text, as its
\* markup, or in the target attribute.
Shows(el, attr, value) ==
    CASE attr = "data-i18n" -> el.kids = textContent(String(value))
      [] attr = "data-i18n-html" -> el.kids = innerHTML(String(value), 1)
      [] OTHER -> getAttribute(el, attrName(attr)) = String(value)

\* Every marker in the document below root whose key resolves in the
\* registry shows the value t returns for it. Of two content markers on one
\* element that both resolve, either may show.
ShowsRegistry(d, root) ==
    \A i \in 1..Len(Below(d, root)) :
        LET el == NodeAt(d, Below(d, root)[i])
        IN  \A attr \in Markers \cap DOMAIN el.attrs :
                Resolves(el, attr)
                => \/ Shows(el, attr, tOf(el, attr, translations, currentPage))
                   \/ /\ attr \in ContentMarkers
                      /\ \E other \in ContentMarkers \ {attr} :
                            /\ Resolves(el, other)
                            /\ Shows(el, other,
                                     tOf(el, other, translations, currentPage))

\* C12: when switchLang(L), L being 'zh' or 'en', has completed and no
\* other pass is in flight, the language attribute of the document is the
\* one of L, the registry holds the payloads of L that were loaded, and
\* every marked element of the document whose key resolves in them shows
\* the value of L.
C12_SwitchShowsLanguage ==
    \A l \in DOMAIN loads :
        SwitchCompleted(l) /\ NoPassInFlight
        => /\ docLang = DocLangOf(loads[l].lang)
           /\ \A i \in 1..3 :
                 translations[loads[l].names[i]]
                     = OrEmpty(loads[l].fetches[i].value)
           /\ ShowsRegistry(dom, <<>>)

(***************************************************************************)
(* C14.                                                                    *)
(***************************************************************************)
\* The Active Language: what getCurrentLang returns
ActiveLang == getCurrentLang(currentLang, stored, navLang)

\* The registry with each payload it holds in the language lang
RegistryIn(lang) ==
    [n \in DOMAIN translations |->
        IF translations[n] = EmptyObject THEN EmptyObject
        ELSE FilePayload(n, lang)]

\* The places the fragments are injected at
FragmentRoots(d) ==
    { getElementById(d, "site-header"),
      querySelectorClass(d, "sticky-header__content"),
      getElementById(d, "site-footer") } \ { <<>> }

\* Every marker below root whose key resolves in the registry shows the
\* value its key has in the language lang.
ShowsLanguage(d, root, lang) ==
    \A i \in 1..Len(Below(d, root)) :
        LET el == NodeAt(d, Below(d, root)[i])
        IN  \A attr \in Markers \cap DOMAIN el.attrs :
                Resolves(el, attr)
                => Shows(el, attr, tOf(el, attr, RegistryIn(lang), currentPage))

\* A pass has completed and none is in flight.
PassesDone == loads # <<>> /\ NoPassInFlight

\* C14: once the fragments are injected (their listeners have run) and a
\* pass has completed, in either order, and no pass is in flight, every
\* marker inside the header, the sticky header and the footer whose key
\* resolves in the registry shows the value of the Active Language.
C14_FragmentsShowActiveLanguage ==
    PassesDone
    => \A root \in FragmentRoots(dom) : ShowsLanguage(dom, root, ActiveLang)

(***************************************************************************)
(* C15.                                                                    *)
(***************************************************************************)
\* The payloads the registry holds are those of the language lang, or empty.
RegistryInLanguage(lang) ==
    \A n \in DOMAIN translations :
        translations[n] \in {EmptyObject, FilePayload(n, lang)}

\* Every marker of the document that shows the value the registry has for
\* its key shows the value the key has in the language lang.
TranslatedIn(d, lang) ==
    \A i \in 1..Len(Below(d, <<>>)) :
        LET el == NodeAt(d, Below(d, <<>>)[i])
        IN  \A attr \in Markers \cap DOMAIN el.attrs :
                /\ Resolves(el, attr)
                /\ Shows(el, attr, tOf(el, attr, translations, currentPage))
                => Shows(el, attr, tOf(el, attr, RegistryIn(lang), currentPage))

\* The button of the language switcher that is active is the one of lang.
SwitcherShows(d, lang) ==
    \A i \in 1..Len(querySwitcherButtons(d, <<>>)) :
        LET btn == NodeAt(d, querySwitcherButtons(d, <<>>)[i])
        IN  HasClass(btn, "active")
                <=> NameOf(getAttribute(btn, "data-lang")) = lang

\* C15: when switchLang started a pass while an earlier pass was in flight
\* and both have completed, in whichever order their requests ended, the
\* registry and every translated marker of the document are in the Active
\* Language, the language of that switch, and so are the language attribute
\* of the document and the active button of the language switcher.
C15_OverlappingPassesConverge ==
    \A l \in DOMAIN loads :
        loads[l].overlaps /\ NoPassInFlight
        => /\ ActiveLang = loads[l].lang
           /\ RegistryInLanguage(ActiveLang)
           /\ TranslatedIn(dom, ActiveLang)
           /\ docLang = DocLangOf(ActiveLang)
           /\ SwitcherShows(dom, ActiveLang)

(***************************************************************************)
(* C16.                                                                    *)
(***************************************************************************)
\* The requests of the pass that have ended were all made for the language
\* of the pass.
OneLanguage(load) ==
    \A i \in DOMAIN load.fetches :
        load.fetches[i].st # "pending"
        => load.fetches[i].value
               \in {EmptyObject, FilePayload(load.names[i], load.lang)}

\* The entries of the registry for header, footer and page are the results
\* of the pass, all of whose requests have ended.
WrittenBy(load) ==
    /\ load.st = "fulfilled"
    /\ DOMAIN translations = {load.names[i] : i \in DOMAIN load.names}
    /\ \A i \in DOMAIN load.names :
          /\ load.fetches[i].st = "fulfilled"
          /\ translations[load.names[i]] = OrEmpty(load.fetches[i].value)

\* C16: the requests of a pass are all made for the language that is active
\* when the pass starts, and their results are written to the registry in
\* one step once all have ended; so the registry that a run of
\* applyTranslations reads is unloaded or holds, for header, footer and
\* page, the results of one and the same pass, also when passes overlap.
C16_AllOrNothing ==
    /\ \A l \in DOMAIN loads : OneLanguage(loads[l])
    /\ loads # <<>> => loads[Len(loads)].lang = ActiveLang
    /\ \/ translations = <<>>
       \/ \E l \in DOMAIN loads : WrittenBy(loads[l])

\* Two passes overlap: the pass of switchLang has written the registry in
\* 'en' and is applied, while two requests of the page load have ended and
\* the third has not.
C16_Witness ==
    /\ Len(loads) = 2
    /\ loads[2].overlaps
    /\ loads[2].lang = "en"
    /\ WrittenBy(loads[2])
    /\ translations["header"] = FilePayload("header", "en")
    /\ loads[1].lang = "zh"
    /\ loads[1].st = "pending"
    /\ loads[1].fetches[1].st = "fulfilled"
    /\ loads[1].fetches[3].st = "fulfilled"
    /\ call.op = "response"
    /\ call.completed = {2}

(***************************************************************************)
(* C18.                                                                    *)
(***************************************************************************)
\* document.title, as the children of the title element
TitleOf(d) == KidsAt(d, querySelectorTag(d, "title"))

\* The content of the description meta element
DescriptionOf(d) ==
    getAttribute(NodeAt(d, querySelectorMetaDescription(d)), "content")

\* pageData.meta[field] of the page namespace of the registry
MetaField(tr, pageName, field) ==
    Property(Property(At(tr, pageName), <<"meta">>), <<field>>)

\* The element at p is inside an element with a markup marker.
InsideMarkup(d, p) ==
    \E k \in 1..(Len(p) - 1) :
        "data-i18n-html" \in DOMAIN NodeAt(d, SubSeq(p, 1, k)).attrs

\* The text markers of before, outside translated markup, show in after the
\* value t returns for them from the registry tr, if their key resolves.
TextMarkersApplied(before, after, tr, cp) ==
    \A i \in 1..Len(querySelectorAll(before, <<>>, "data-i18n")) :
        LET p == querySelectorAll(before, <<>>, "data-i18n")[i]
            value == tOf(NodeAt(before, p), "data-i18n", tr, cp)
        IN  /\ ~InsideMarkup(before, p)
            /\ "data-i18n-html" \notin DOMAIN NodeAt(before, p).attrs
            /\ Differs(value, NodeAt(before, p).attrs["data-i18n"])
            => Shows(NodeAt(after, p), "data-i18n", value)

\* The title and the description after updateMetaTags(pageName): the value
\* of the 'meta' field if the page payload has it, and what they were if not
MetaUpdated(before, after, tr, pageName) ==
    /\ IF Truthy(MetaField(tr, pageName, "title"))
       THEN TitleOf(after)
                = textContent(String(MetaField(tr, pageName, "title")))
       ELSE TitleOf(after) = TitleOf(before)
    /\ IF Truthy(MetaField(tr, pageName, "description"))
       THEN DescriptionOf(after)
                = String(MetaField(tr, pageName, "description"))
       ELSE DescriptionOf(after) = DescriptionOf(before)

\* C18: a pass of translatePage resolves and stores the page, then loads
\* header, footer and page, then applies the whole document, then updates
\* title and description from 'meta' of the page. The names of every pass
\* are header, footer and the stored page; a response that leaves a request
\* of its pass pending changes neither registry nor document; the response
\* that completes a pass finds its three requests ended, writes their
\* results, applies the markers of the document, and sets title and
\* description to the 'meta' fields the page payload has and leaves them as
\* they were for the fields it does not have.
C18_FullTranslateOrder ==
    [][ call'.op = "response"
        => /\ \A l \in DOMAIN loads' :
                 loads'[l].names = <<"header", "footer", currentPage'>>
           /\ currentPage' = getPageName(pathname')
           /\ IF call'.completed = {}
              THEN /\ dom' = dom
                   /\ translations' = translations
                   /\ \E l \in DOMAIN loads' :
                         /\ loads'[l] # loads[l]
                         /\ \E i \in 1..3 : loads'[l].fetches[i].st = "pending"
              ELSE \A l \in call'.completed :
                       /\ \A i \in 1..3 : loads'[l].fetches[i].st # "pending"
                       /\ \A i \in 1..3 :
                             translations'[loads'[l].names[i]]
                                 = OrEmpty(loads'[l].fetches[i].value)
                       /\ TextMarkersApplied(dom, dom', translations',
                                             currentPage')
                       /\ MetaUpdated(dom, dom', translations',
                                      loads'[l].names[3])
      ]_vars

\* The page load of '/' has completed: the title is the one of index in the
\* language of the pass, and the description, which 'meta' of index does
\* not have, is the one of the page.
C18_Witness ==
    /\ call.op = "response"
    /\ call.completed = {1}
    /\ currentPage = "index"
    /\ translations["index"] = FilePayload("index", loads[1].lang)
    /\ TitleOf(dom) = textContent(<<"title", loads[1].lang>>)
    /\ DescriptionOf(dom) = DescriptionOf(PageDocument)
    /\ DescriptionOf(dom) # <<>>

(***************************************************************************)
(* C19.                                                                    *)
(***************************************************************************)
\* The document without what is inside the site header and its copy in the
\* sticky header
OutsideHeader(d) ==
    setInnerNodes(setInnerNodes(d, getElementById(d, "site-header"), <<>>),
                  querySelectorClass(d, "sticky-header__content"), <<>>)

\* The document without what is inside the site footer
OutsideFooter(d) == setInnerNodes(d, getElementById(d, "site-footer"), <<>>)

\* C19: the listeners of 'headerLoaded' and 'footerLoaded' apply again and
\* do no more: no request is made or ended, the registry, the Active
\* Language, the stored preference and the current page stay as they were,
\* and so do the language attribute of the document and every element
\* outside the fragment: outside the site header and the sticky header for
\* 'headerLoaded', outside the site footer for 'footerLoaded'.
C19_FragmentSignalFrame ==
    [][ call'.op \in {"headerLoaded", "footerLoaded"}
        => /\ loads' = loads
           /\ translations' = translations
           /\ getCurrentLang(currentLang', stored', navLang') = ActiveLang
           /\ stored' = stored
           /\ currentPage' = currentPage
           /\ docLang' = docLang
           /\ IF call'.op = "headerLoaded"
              THEN OutsideHeader(dom') = OutsideHeader(dom)
              ELSE OutsideFooter(dom') = OutsideFooter(dom)
      ]_vars

\* The footer is injected when the header is and the language was switched
\* to 'en' after a pass had completed in 'zh', the pass of the switch being
\* in flight: the marker of the footer shows the value of the registry,
\* and the button of the header stays on 'zh'.
C19_Witness ==
    /\ call.op = "footerLoaded"
    /\ IsInjected(dom, "site-header")
    /\ IsInjected(dom, "site-footer")
    /\ Len(loads) = 2
    /\ loads[2].st = "pending"
    /\ ActiveLang = "en"
    /\ At(translations, "footer") = FilePayload("footer", "zh")
    /\ KidsAt(dom, getElementById(dom, "site-footer"))[1].kids
           = textContent(<<"footer", "zh">>)
    /\ SwitcherShows(dom, "zh")

(***************************************************************************)
(* C21.                                                                    *)
(***************************************************************************)
\* The key of the call is found in neither the namespace of the call nor
\* the current page namespace.
FoundInNeither ==
    /\ ~Found(call.namespace, call.key)
    /\ currentPage # JsNull => ~Found(currentPage, call.key)

\* C21: the other page namespaces are consulted in one order, with and
\* without an explicit namespace: when the key is found in neither the
\* explicit namespace ns nor the current page namespace, t(key, ns) returns
\* what t(key) returns.
C21_SamePageOrder ==
    TDone /\ TruthyName(call.namespace) /\ FoundInNeither
    => ret = t(translations, currentPage, call.key, JsNull)

(***************************************************************************)
(* C22.                                                                    *)
(***************************************************************************)
\* The locale, in lower case, starts with 'zh'; no locale counts as 'zh'.
LocaleSaysZh(nav) ==
    \/ nav = NoLocale
    \/ nav = <<>>
    \/ /\ Len(nav) >= 2
       /\ nav[1] \in {"z", "Z"}
       /\ nav[2] \in {"h", "H"}

\* The language of an empty cache: the stored preference when it is 'zh'
\* or 'en', and the language of the locale when it is not.
DetectedLang(sto, nav) ==
    IF sto \in {"zh", "en"} THEN sto
    ELSE IF LocaleSaysZh(nav) THEN "zh" ELSE "en"

\* C22: getCurrentLang with an empty cache returns the stored preference
\* when it is 'zh' or 'en', and otherwise 'zh' if the locale (in lower case,
\* 'zh' when none is reported) starts with 'zh' and 'en' if not. It returns
\* 'zh' or 'en' always, and the value it returned once is returned by every
\* later call until setLang accepts a language: the value is kept in the
\* cache, which a call with a filled cache returns and which no step other
\* than an accepted setLang changes, whatever happens to the stored
\* preference and the locale.
C22_DetectOnceThenCached ==
    [][ /\ call'.op = "getCurrentLang"
           => /\ ret' \in {"zh", "en"}
              /\ currentLang' = ret'
              /\ ret' = IF currentLang = JsNull
                        THEN DetectedLang(stored, navLang)
                        ELSE currentLang
        /\ /\ currentLang # JsNull
           /\ ~(call'.op = "setLang" /\ call'.lang \in {"zh", "en"})
           => currentLang' = currentLang ]_vars

\* getCurrentLang has returned 'en' when 'zh' is stored and the locale says
\* 'zh': the value was detected earlier and the stored item changed after
\* that. No setLang was accepted, since the language of the document is not
\* that of the cache.
C22_Witness ==
    /\ call.op = "getCurrentLang"
    /\ prev.op = "storage"
    /\ stored = "zh"
    /\ navLang = <<"z", "h", "-", "C", "N">>
    /\ ret = "en"
    /\ currentLang = "en"
    /\ docLang = "zh-CN"

(***************************************************************************)
(* The key resolver and the fallback engine on payloads that store the     *)
(* empty string and false.                                                 *)
(***************************************************************************)
\* A payload with '' and false stored at a key, and in an array below a key
StoredFalsy ==
    Obj((<<"a">> :> Str(<<>>))
        @@ (<<"b">> :> Bool(FALSE))
        @@ (<<"0">> :> Obj(<<"a">> :> Arr(<<Str(<<>>), Bool(FALSE)>>))))

\* A payload with other values at the same keys
StoredOther(n) ==
    Obj((<<"a">> :> Str(<<n>>))
        @@ (<<"b">> :> Bool(TRUE))
        @@ (<<"0">> :> Obj(<<"a">> :> Arr(<<Str(<<n>>), Null>>))))

StoredNamespaces == {"index", "services", "header", "footer"}

\* Every registry in which each of the namespaces is absent, stores '' and
\* false, or stores other values.
StoredRegistries ==
    { [n \in {m \in StoredNamespaces : opt[m] # "absent"} |->
          IF opt[n] = "falsy" THEN StoredFalsy ELSE StoredOther(n)] :
        opt \in [StoredNamespaces -> {"absent", "falsy", "other"}] }

StoredKeys ==
    { <<"a">>, <<"b">>, <<"0", ".", "a", ".", "0">>, <<"0", ".", "a", ".", "1">>,
      <<"a", ".", "b">> }

StoredCalls ==
    { [op |-> "t", key |-> k, namespace |-> n, done |-> FALSE] :
        k \in StoredKeys, n \in {JsNull, "index", "header", "other"} }
    \cup
    { [op |-> "getValue", obj |-> o, path |-> k, done |-> FALSE] :
        o \in {StoredFalsy, StoredOther("index"), Str(<<>>), Bool(FALSE)},
        k \in StoredKeys \cup {<<>>} }

InitStored ==
    /\ currentLang = JsNull
    /\ currentPage \in {JsNull, "index", "services"}
    /\ translations \in StoredRegistries
    /\ EnvIdle
    /\ call \in StoredCalls
    /\ prev = NoCall
    /\ ret = Undefined

NextStored == GetValueCall \/ TCall

SpecStored == InitStored /\ [][NextStored]_vars

(***************************************************************************)
(* C23.                                                                    *)
(***************************************************************************)
\* A stored empty string or false
IsStoredFalsy(x) == x = Str(<<>>) \/ x = Bool(FALSE)

\* What the path leads to in the payload, by the rules of the lookup
LeadsTo(payload, path) == RuleLookup(payload, path, FALSE)

\* The namespace t consults first: the explicit one, and without it the
\* current page, if there is one
FirstConsulted ==
    IF TruthyName(call.namespace) THEN call.namespace ELSE currentPage

\* C23: not-found is distinct from a stored empty string and a stored
\* false. When the path leads to a stored '' or false in the payload,
\* getValue returns that value, which is neither null nor undefined; and
\* when the key leads to one in the namespace t consults first, t returns
\* that value and goes on to no other namespace.
C23_StoredFalsyIsFound ==
    /\ call.op = "getValue" /\ call.done
       /\ IsStoredFalsy(LeadsTo(call.obj, call.path))
       => /\ ret = LeadsTo(call.obj, call.path)
          /\ ~IsNullish(ret)
    /\ TDone /\ FirstConsulted # JsNull
       /\ IsStoredFalsy(LeadsTo(At(translations, FirstConsulted), call.key))
       => ret = LeadsTo(At(translations, FirstConsulted), call.key)

\* t('b', 'header') has returned the false that header stores, the current
\* page and footer storing true at the key.
C23_Witness ==
    /\ TDone
    /\ call.namespace = "header"
    /\ call.key = <<"b">>
    /\ currentPage = "index"
    /\ At(translations, "header") = StoredFalsy
    /\ At(translations, "index") = StoredOther("index")
    /\ At(translations, "footer") = StoredOther("footer")
    /\ ret = Bool(FALSE)

(***************************************************************************)
(* The page controller on a visit: the page is served with a language      *)
(* attribute of its own, a preference may be stored from an earlier visit, *)
(* and the runtime reports a locale or none.                               *)
(***************************************************************************)
\* What is stored when the page is opened: nothing, or what setLang wrote
VisitStored == {JsNull, "zh", "en"}

VisitLocales == { NoLocale, <<"e", "n", "-", "U", "S">> }

InitVisit ==
    /\ I18NIdle
    /\ stored \in VisitStored
    /\ navLang \in VisitLocales
    /\ docLang \in DocLangs
    /\ dispatched = <<>>
    /\ loads = <<>>
    /\ dom = PageDocument
    /\ pathname = <<"/">>
    /\ call = NoCall
    /\ prev = NoCall
    /\ ret = Undefined

NextVisit ==
    \/ PageLoad
    \/ \E lang \in SwitchLangArgs : SwitchLang(lang, MaxPasses)
    \/ SomeResponseArrives

SpecVisit == InitVisit /\ [][NextVisit]_vars

(***************************************************************************)
(* C24.                                                                    *)
(***************************************************************************)
\* A pass of translatePage has completed.
SomePassCompleted == \E l \in DOMAIN loads : loads[l].st = "fulfilled"

\* C24: whenever a pass of translatePage has completed, the pass of the
\* page load included, whose language is the stored preference or the one
\* of the locale, the language attribute of the document is the one of the
\* Active Language: 'zh-CN' for 'zh', 'en' for 'en'.
C24_DocumentLanguageFollows ==
    SomePassCompleted => docLang = DocLangOf(ActiveLang)

=============================================================================
